---- MODULE Spec2Model ----
(***************************************************************************)
(* Model of the matching core of Assemble_AI (matching_service):           *)
(*   - mmr_select                  (src/matching/algos.py)                 *)
(*   - greedy_max_weight_matching  (src/matching/algos.py)                 *)
(*   - InMemoryRetriever.recall_host_candidates (src/matching/adapters.py) *)
(*   - MatchingParams construction and validate_logic (src/matching/types) *)
(*                                                                         *)
(* Arithmetic.  Floats are modelled by exact fixed-point integers:         *)
(*   similarity and weights in hundredths (1.0 = 100),                     *)
(*   lambda and history_penalty in tenths (1.0 = 10),                      *)
(*   relevance and every score in millionths (1.0 = One): a weighted sum   *)
(*   of similarities has four decimals, and up to two factors of           *)
(*   history_penalty add one decimal each,                                 *)
(*   an MMR value in ten-millionths (lam * rel - (10 - lam) * penalty).    *)
(* Vectors are pairs of integers whose norm is an integer, so that every   *)
(* cosine is an exact number of hundredths.  The 1e-12 guard added to the  *)
(* denominators is below this resolution: it makes the cosine of a zero    *)
(* vector 0.0 and moves the other cosines by less than 1e-12.  A relevance *)
(* is any float the caller supplies, so a relevance equal to a cosine, on  *)
(* which the ties of MMR values rest, is an input of the code as well.     *)
(***************************************************************************)
EXTENDS Integers, Sequences, FiniteSets, TLC

(***************************************************************************)
(* Bounds of the model                                                     *)
(***************************************************************************)
MaxLen == 3
\* longest item list handed to mmr_select
MaxEdges == 3
\* longest edge list handed to greedy_max_weight_matching
MaxPool == 3
\* largest profile pool handed to recall_host_candidates

One == 1000000
\* the score 1.0
SimUnit == 10000
\* one hundredth, the unit of a similarity, as a score

None == <<>>
\* Python None for an absent vector (no vector of the model is empty)

Vectors == { <<1, 0>>, <<0, 1>>, <<3, 4>> }
OptVectors == Vectors \cup {None}
Rels == {0, One}
Lams == {0, 1, 5, 10}
ValidLams == {l \in Lams : 0 < l /\ l <= 10}

VARIABLES
    mmr_items,      \* argument items: sequence of [rel, vec]
    mmr_k,          \* argument k, as passed
    mmr_lam,        \* argument lam, in tenths
    mmr_range,      \* the local k after k = min(k, len(items)): passes of the for loop
    selected,       \* input positions of the selected items, in selection order
    remaining,      \* input positions of the remaining items
    selected_vecs,  \* vectors of the selected items
    mmr_i,          \* passes of "for _ in range(k)" done so far
    mmr_pc,         \* "call", "loop", "done" (returned) or "raised" (ValueError)
    mmr_ret         \* returned list, as input positions

mmr_vars == <<mmr_items, mmr_k, mmr_lam, mmr_range, selected, remaining,
              selected_vecs, mmr_i, mmr_pc, mmr_ret>>

VARIABLES
    g_edges,        \* argument edges: sequence of [user_a, user_b, score]
    sorted_edges,   \* the local sorted_edges
    g_pc,           \* "call", "scan" or "done"
    g_ret           \* returned list of edges

g_vars == <<g_edges, sorted_edges, g_pc, g_ret>>

VARIABLES
    r_query,        \* argument query_vector
    r_users,        \* argument users: sequence of [language, v_profile]
    r_top_n,        \* argument top_n
    r_require,      \* argument require_same_language
    r_qlang,        \* argument query_language
    scored,         \* the local scored: sequence of [user (pool position), sim]
    r_pc,           \* "call", "scored" or "done"
    r_ret           \* returned list

r_vars == <<r_query, r_users, r_top_n, r_require, r_qlang, scored, r_pc, r_ret>>

VARIABLES
    p_args,         \* keyword arguments given to MatchingParams(...)
    p_params,       \* the MatchingParams object obtained, a record
    p_pc            \* "call", "constructed", "ValidationError" (constructor),
                    \* "valid" or "ValueError" (validate_logic)

p_vars == <<p_args, p_params, p_pc>>

VARIABLES
    bv_users,       \* argument users of build_user_vectors: the profiles, which
                    \* the function changes in place
    bv_log,         \* keyword arguments of the calls made so far, oldest first
    encode_calls    \* embedder.encode calls of the last call: [field, texts]

bv_vars == <<bv_users, bv_log, encode_calls>>

VARIABLES
    e_users,        \* argument users of the engine call: the pool, whose vectors
                    \* the call fills in place
    e_params,       \* argument params, a MatchingParams record
    e_counts,       \* argument past_pair_counts: sorted id pair -> count
    e_fn,           \* the function called
    e_args,         \* its other arguments
    e_pc,           \* "call", "returned" or "ValueError"
    e_ret,          \* the value returned
    e_encodes       \* the calls of the embedder made by the engine call

e_vars == <<e_users, e_params, e_counts, e_fn, e_args, e_pc, e_ret, e_encodes>>

VARIABLES
    s_db,           \* ids of the profiles the database holds
    cache_vectors,  \* constructor argument cache_vectors
    user_profile_cache,  \* keys of self._user_profile_cache
    default_params, \* self.default_params
    s_fn,           \* the entry point called last
    s_args,         \* its arguments
    s_out,          \* "idle", or how the call ended: "returned", "NotFound"
                    \* (the ValueError "User ... not found in database") or
                    \* "ValueError" (the one validate_logic raises)
    s_ret           \* the value returned

s_vars == <<s_db, cache_vectors, user_profile_cache, default_params,
            s_fn, s_args, s_out, s_ret>>

VARIABLES
    mp_user,        \* argument user of match_profiles
    mp_candidates,  \* argument candidates, a list of dicts
    mp_k,           \* argument k
    mp_pc,          \* "call" or "done"
    mp_ret          \* the list returned

mp_vars == <<mp_user, mp_candidates, mp_k, mp_pc, mp_ret>>

VARIABLES
    parsing_jobs,   \* table parsing_jobs, a list of rows; the id is the index
    profiles,       \* table profiles, user id -> <<>> or <<row>>
    workers,        \* the thread start_job made for each job, with its locals
    confirms        \* each caller of /api/parsing/confirm, with its locals

pj_vars == <<parsing_jobs, profiles, workers, confirms>>

more_vars == <<bv_vars, e_vars, s_vars, mp_vars, pj_vars>>

vars == <<mmr_vars, g_vars, r_vars, p_vars, more_vars>>

(***************************************************************************)
(* Each specification below exercises one function; the variables of the   *)
(* others stay in the idle state.                                          *)
(***************************************************************************)
MmrIdle ==
    /\ mmr_items = <<>>
    /\ mmr_k = 0
    /\ mmr_lam = 10
    /\ mmr_range = 0
    /\ selected = <<>>
    /\ remaining = <<>>
    /\ selected_vecs = <<>>
    /\ mmr_i = 0
    /\ mmr_pc = "idle"
    /\ mmr_ret = <<>>

GreedyIdle ==
    /\ g_edges = <<>>
    /\ sorted_edges = <<>>
    /\ g_pc = "idle"
    /\ g_ret = <<>>

DefaultParams ==
    [host_recall_top_n |-> 1000, host_return_top_k |-> 100, host_mmr_lambda |-> 5,
     w_exp |-> 50, w_interest |-> 30, w_goal |-> 20,
     user_top_l |-> 20, history_penalty |-> 8]

ParamsIdle ==
    /\ p_args = DefaultParams
    /\ p_params = DefaultParams
    /\ p_pc = "idle"

RecallIdle ==
    /\ r_query = <<1, 0>>
    /\ r_users = <<>>
    /\ r_top_n = 1
    /\ r_require = FALSE
    /\ r_qlang = "None"
    /\ scored = <<>>
    /\ r_pc = "idle"
    /\ r_ret = <<>>

VectorsIdle ==
    /\ bv_users = <<>>
    /\ bv_log = <<>>
    /\ encode_calls = <<>>

NoArgs ==
    [top_k |-> 0, apply_mmr |-> FALSE, mmr_lambda |-> 0, min_score |-> 0,
     mode |-> "", top_l |-> 0, host_text |-> ""]

EngineIdle ==
    /\ e_users = <<>>
    /\ e_params = DefaultParams
    /\ e_counts = <<>>
    /\ e_fn = ""
    /\ e_args = NoArgs
    /\ e_pc = "idle"
    /\ e_ret = <<>>
    /\ e_encodes = <<>>

NoServiceArgs ==
    [user_id |-> 0, user_ids |-> <<>>, top_k |-> 0, apply_mmr |-> FALSE]

ServiceIdle ==
    /\ s_db = {}
    /\ cache_vectors = FALSE
    /\ user_profile_cache = {}
    /\ default_params = DefaultParams
    /\ s_fn = ""
    /\ s_args = NoServiceArgs
    /\ s_out = "off"
    /\ s_ret = <<>>

MatcherIdle ==
    /\ mp_user = <<>>
    /\ mp_candidates = <<>>
    /\ mp_k = 0
    /\ mp_pc = "idle"
    /\ mp_ret = <<>>

ParsingIdle ==
    /\ parsing_jobs = <<>>
    /\ profiles = <<>>
    /\ workers = <<>>
    /\ confirms = <<>>

MoreIdle ==
    /\ VectorsIdle
    /\ EngineIdle
    /\ ServiceIdle
    /\ MatcherIdle
    /\ ParsingIdle

(***************************************************************************)
(* Basic tools                                                             *)
(***************************************************************************)
Min(a, b) == IF a <= b THEN a ELSE b

Dot(u, v) == u[1] * v[1] + u[2] * v[2]

\* np.linalg.norm on a vector whose squared length is a perfect square
Norm(v) == CHOOSE n \in 0..(Dot(v, v)) : n * n = Dot(v, v)

\* cosine_sim, in hundredths: dot / (|a| * |b| + 1e-12)
cosine_sim(u, v) ==
    IF Norm(u) * Norm(v) = 0 THEN 0
    ELSE (Dot(u, v) * 100) \div (Norm(u) * Norm(v))

RECURSIVE SeqMax(_)
SeqMax(s) ==
    IF Len(s) = 1 THEN s[1]
    ELSE LET m == SeqMax(Tail(s)) IN IF s[1] >= m THEN s[1] ELSE m

\* mutant: ascending sort then reversed, which reverses the equal keys
RECURSIVE ReversedAscPerm(_, _)
ReversedAscPerm(keys, n) ==
    IF n = 0 THEN <<>>
    ELSE LET prev == ReversedAscPerm(keys, n - 1)
             cnt == Cardinality({i \in 1..(n - 1) : keys[i] > keys[n]})
         IN  SubSeq(prev, 1, cnt) \o <<n>> \o SubSeq(prev, cnt + 1, n - 1)

\* list.sort / sorted with reverse=True on the keys: the positions 1..n in
\* descending key order, equal keys in their original order (the sort is
\* stable also when reversed)
RECURSIVE StableDescPerm(_, _)
StableDescPerm(keys, n) ==
    IF n = 0 THEN <<>>
    ELSE LET prev == StableDescPerm(keys, n - 1)
             cnt == Cardinality({i \in 1..(n - 1) : keys[i] >= keys[n]})
         IN  SubSeq(prev, 1, cnt) \o <<n>> \o SubSeq(prev, cnt + 1, n - 1)

(***************************************************************************)
(* mmr_select                                                              *)
(***************************************************************************)
NegInf == -1000000000
\* float('-inf'): below every MMR score of the model

get_relevance(item) == item.rel
get_vector(item) == item.vec

\* sims: cosine to every selected vector that is not None, in order
RECURSIVE Sims(_, _)
Sims(item_vec, sel_vecs) ==
    IF sel_vecs = <<>> THEN <<>>
    ELSE IF Head(sel_vecs) # None
         THEN <<cosine_sim(item_vec, Head(sel_vecs))>> \o Sims(item_vec, Tail(sel_vecs))
         ELSE Sims(item_vec, Tail(sel_vecs))

\* mutant: no diversity penalty at all
diversity_penalty_zero(item, sel_vecs) == 0

\* mutant: an item without a vector penalized as a copy of a selected item
diversity_penalty_vectorless(item, sel_vecs) ==
    IF sel_vecs = <<>> THEN 0
    ELSE IF get_vector(item) = None THEN 100
    ELSE LET sims == Sims(get_vector(item), sel_vecs)
         IN  IF sims # <<>> THEN SeqMax(sims) ELSE 0

diversity_penalty(item, sel_vecs) ==
    IF get_vector(item) # None /\ sel_vecs # <<>>
    THEN LET sims == Sims(get_vector(item), sel_vecs)
         IN  IF sims # <<>> THEN SeqMax(sims) ELSE 0
    ELSE 0

\* mutant: the penalty not weighted by (1 - lam)
mmr_score_unweighted(item, lam, sel_vecs) ==
    lam * get_relevance(item) - 10 * diversity_penalty(item, sel_vecs) * SimUnit

\* lam * rel - (1.0 - lam) * diversity_penalty, in ten-millionths
mmr_score(item, lam, sel_vecs) ==
    lam * get_relevance(item) - (10 - lam) * diversity_penalty(item, sel_vecs) * SimUnit

\* the inner "for item in remaining" loop: position of best_item (0 = None)
RECURSIVE ScanRemaining(_, _, _, _, _, _, _)
ScanRemaining(items, rem, j, lam, sel_vecs, best_item, best_mmr) ==
    IF j > Len(rem) THEN best_item
    ELSE LET s == mmr_score(items[rem[j]], lam, sel_vecs)
         IN  IF s > best_mmr
             THEN ScanRemaining(items, rem, j + 1, lam, sel_vecs, rem[j], s)
             ELSE ScanRemaining(items, rem, j + 1, lam, sel_vecs, best_item, best_mmr)

\* mutant: the comparison written ">=", so that the last of a tie wins
RECURSIVE ScanRemainingGe(_, _, _, _, _, _, _)
ScanRemainingGe(items, rem, j, lam, sel_vecs, best_item, best_mmr) ==
    IF j > Len(rem) THEN best_item
    ELSE LET s == mmr_score(items[rem[j]], lam, sel_vecs)
         IN  IF s >= best_mmr
             THEN ScanRemainingGe(items, rem, j + 1, lam, sel_vecs, rem[j], s)
             ELSE ScanRemainingGe(items, rem, j + 1, lam, sel_vecs, best_item, best_mmr)

BestItemLastWins(items, rem, lam, sel_vecs) ==
    ScanRemainingGe(items, rem, 1, lam, sel_vecs, 0, NegInf)

BestItem(items, rem, lam, sel_vecs) ==
    ScanRemaining(items, rem, 1, lam, sel_vecs, 0, NegInf)

\* mutant: remaining.pop(0) in place of remaining.remove(best_item)
RemovePopHead(items, rem, best) == Tail(rem)

\* mutant: every element equal to best_item dropped, not only the first
RemoveAllEqual(items, rem, best) ==
    SelectSeq(rem, LAMBDA p : items[p] # items[best])

\* list.remove(x): drops the first element equal (==) to x
RemoveFirst(items, rem, best) ==
    LET j == CHOOSE j \in 1..Len(rem) :
                 /\ items[rem[j]] = items[best]
                 /\ \A h \in 1..(j - 1) : items[rem[h]] # items[best]
    IN  SubSeq(rem, 1, j - 1) \o SubSeq(rem, j + 1, Len(rem))

Items == [rel : Rels, vec : OptVectors]
ItemLists == UNION { [1..n -> Items] : n \in 0..MaxLen }

InitMMR ==
    /\ mmr_items \in ItemLists
    /\ mmr_k \in -1..(MaxLen + 1)
    /\ mmr_lam \in Lams
    /\ mmr_range = 0
    /\ selected = <<>>
    /\ remaining = <<>>
    /\ selected_vecs = <<>>
    /\ mmr_i = 0
    /\ mmr_pc = "call"
    /\ mmr_ret = <<>>
    /\ GreedyIdle
    /\ RecallIdle
    /\ ParamsIdle
    /\ MoreIdle

\* lines 103-115: early return, lambda check, set-up of the loop
MmrEnter ==
    /\ mmr_pc = "call"
    /\ IF mmr_k <= 0 \/ mmr_items = <<>>
       THEN /\ mmr_pc' = "done"
            /\ mmr_ret' = <<>>
            /\ UNCHANGED <<mmr_range, remaining>>
       ELSE IF ~(0 < mmr_lam /\ mmr_lam <= 10)
       THEN /\ mmr_pc' = "raised"
            /\ UNCHANGED <<mmr_range, remaining, mmr_ret>>
       ELSE /\ mmr_pc' = "loop"
            /\ mmr_range' = Min(mmr_k, Len(mmr_items))
            /\ remaining' = [p \in 1..Len(mmr_items) |-> p]
            /\ UNCHANGED mmr_ret
    /\ UNCHANGED <<mmr_items, mmr_k, mmr_lam, selected, selected_vecs, mmr_i>>
    /\ UNCHANGED <<g_vars, r_vars, p_vars, more_vars>>

\* lines 117-151: one pass of "for _ in range(k)"
MmrStep ==
    /\ mmr_pc = "loop"
    /\ mmr_i < mmr_range
    /\ remaining # <<>>
    /\ LET best == BestItem(mmr_items, remaining, mmr_lam, selected_vecs)
       IN  IF best # 0
           THEN /\ selected' = Append(selected, best)
                /\ remaining' = RemoveFirst(mmr_items, remaining, best)
                /\ selected_vecs' = Append(selected_vecs, get_vector(mmr_items[best]))
           ELSE UNCHANGED <<selected, remaining, selected_vecs>>
    /\ mmr_i' = mmr_i + 1
    /\ UNCHANGED <<mmr_items, mmr_k, mmr_lam, mmr_range, mmr_pc, mmr_ret>>
    /\ UNCHANGED <<g_vars, r_vars, p_vars, more_vars>>

\* lines 118-119 and 153: loop exhausted or nothing remaining, return selected
MmrReturn ==
    /\ mmr_pc = "loop"
    /\ (mmr_i >= mmr_range \/ remaining = <<>>)
    /\ mmr_pc' = "done"
    /\ mmr_ret' = selected
    /\ UNCHANGED <<mmr_items, mmr_k, mmr_lam, mmr_range, selected, remaining,
                   selected_vecs, mmr_i>>
    /\ UNCHANGED <<g_vars, r_vars, p_vars, more_vars>>

\* mmr_select(items, k=2, lam=0.1) on items whose relevance is a cosine:
\* -1.0, 0.0 or 1.0
SignedRels == {0 - One, 0, One}
SignedItems == [rel : SignedRels, vec : OptVectors]

InitDuplicates ==
    /\ \E n \in 0..MaxLen : mmr_items \in [1..n -> SignedItems]
    /\ mmr_k = 2
    /\ mmr_lam = 1
    /\ mmr_range = 0
    /\ selected = <<>>
    /\ remaining = <<>>
    /\ selected_vecs = <<>>
    /\ mmr_i = 0
    /\ mmr_pc = "call"
    /\ mmr_ret = <<>>
    /\ GreedyIdle
    /\ RecallIdle
    /\ ParamsIdle
    /\ MoreIdle

NextMMR == MmrEnter \/ MmrStep \/ MmrReturn

SpecMMR == InitMMR /\ [][NextMMR]_vars

SpecDuplicates == InitDuplicates /\ [][NextMMR]_vars

(***************************************************************************)
(* greedy_max_weight_matching                                              *)
(***************************************************************************)
Ids == {1, 2, 3}
\* a UserId is a string; the model keeps its rank in the string order
Scores == {1, 2}
Edges == [user_a : Ids, user_b : Ids, score : Scores]

\* Edge.sorted_ids
sorted_ids(e) ==
    IF e.user_a < e.user_b THEN <<e.user_a, e.user_b>> ELSE <<e.user_b, e.user_a>>

\* mutant: the edges scanned in the order given
SortEdgesNone(edges) == edges

\* sorted(edges, key=lambda e: e.score, reverse=True)
SortEdges(edges) ==
    LET perm == StableDescPerm([i \in 1..Len(edges) |-> edges[i].score], Len(edges))
    IN  [i \in 1..Len(edges) |-> edges[perm[i]]]

\* mutant: only the first endpoint looked up in used_users
AcceptsFirstOnly(edge, used_users) == edge.user_a \notin used_users

\* line 225: the test of the scan
Accepts(edge, used_users) ==
    edge.user_a \notin used_users /\ edge.user_b \notin used_users

\* lines 221-228: the scan over sorted_edges, from position i on
RECURSIVE ScanEdges(_, _, _, _)
ScanEdges(sorted, i, matched, used_users) ==
    IF i > Len(sorted) THEN matched
    ELSE IF Accepts(sorted[i], used_users)
         THEN ScanEdges(sorted, i + 1, Append(matched, sorted[i]),
                        used_users \cup {sorted[i].user_a, sorted[i].user_b})
         ELSE ScanEdges(sorted, i + 1, matched, used_users)

\* the whole function, as a value
greedy_max_weight_matching(edges) ==
    IF edges = <<>> THEN <<>> ELSE ScanEdges(SortEdges(edges), 1, <<>>, {})

InitGreedy ==
    /\ \E n \in 0..MaxEdges : g_edges \in [1..n -> Edges]
    /\ sorted_edges = <<>>
    /\ g_pc = "call"
    /\ g_ret = <<>>
    /\ MmrIdle
    /\ RecallIdle
    /\ ParamsIdle
    /\ MoreIdle

\* lines 215-219: empty input returns at once, otherwise the edges are sorted
GreedySort ==
    /\ g_pc = "call"
    /\ IF g_edges = <<>>
       THEN /\ g_pc' = "done"
            /\ g_ret' = <<>>
            /\ UNCHANGED sorted_edges
       ELSE /\ g_pc' = "scan"
            /\ sorted_edges' = SortEdges(g_edges)
            /\ UNCHANGED g_ret
    /\ UNCHANGED <<g_edges, mmr_vars, r_vars, p_vars, more_vars>>

\* lines 221-230: the scan and the return
GreedyScan ==
    /\ g_pc = "scan"
    /\ g_pc' = "done"
    /\ g_ret' = ScanEdges(sorted_edges, 1, <<>>, {})
    /\ UNCHANGED <<g_edges, sorted_edges, mmr_vars, r_vars, p_vars, more_vars>>

NextGreedy == GreedySort \/ GreedyScan

SpecGreedy == InitGreedy /\ [][NextGreedy]_vars

(***************************************************************************)
(* InMemoryRetriever.recall_host_candidates                                *)
(***************************************************************************)
Languages == {"en", "ZH"}
QueryLanguages == {"None", "", "zh"}
\* "None" stands for Python None; None and "" are both falsy
QueryVectors == { <<1, 0>>, <<3, 4>> }
Profiles == [language : Languages, v_profile : OptVectors]

\* str.lower on the strings of the model
Lower(x) == CASE x = "ZH" -> "zh" [] x = "EN" -> "en" [] OTHER -> x

Truthy(x) == x \notin {"None", ""}

\* mutant: the languages compared as written, without lower()
LanguageSkippedExact(u, require_same_language, query_language) ==
    /\ require_same_language
    /\ Truthy(query_language)
    /\ u.language # query_language

\* lines 292-294: the profile is skipped by the language filter
LanguageSkipped(u, require_same_language, query_language) ==
    /\ require_same_language
    /\ Truthy(query_language)
    /\ Lower(u.language) # Lower(query_language)

\* lines 300-302: dot(v, q) / (|v| * (|q| + 1e-12) + 1e-12), in hundredths
recall_sim(v, q) ==
    IF Norm(v) * Norm(q) = 0 THEN 0
    ELSE (Dot(v, q) * 100) \div (Norm(v) * Norm(q))

\* lines 290-303: the loop over users, from position i on
RECURSIVE ScoreUsers(_, _, _, _, _, _)
ScoreUsers(users, i, q, require_same_language, query_language, acc) ==
    IF i > Len(users) THEN acc
    ELSE IF LanguageSkipped(users[i], require_same_language, query_language)
         THEN ScoreUsers(users, i + 1, q, require_same_language, query_language, acc)
    ELSE IF users[i].v_profile = None
         THEN ScoreUsers(users, i + 1, q, require_same_language, query_language, acc)
    ELSE ScoreUsers(users, i + 1, q, require_same_language, query_language,
                    Append(acc, [user |-> i, sim |-> recall_sim(users[i].v_profile, q)]))

\* scored.sort(key=lambda x: x[1], reverse=True)
SortScored(sc) ==
    LET perm == StableDescPerm([i \in 1..Len(sc) |-> sc[i].sim], Len(sc))
    IN  [i \in 1..Len(sc) |-> sc[perm[i]]]

\* scored[:top_n] for top_n >= 0
SliceTo(sc, top_n) == SubSeq(sc, 1, Min(top_n, Len(sc)))

InitRecall ==
    /\ r_query \in QueryVectors
    /\ \E n \in 0..MaxPool : r_users \in [1..n -> Profiles]
    /\ r_top_n \in 0..(MaxPool + 1)
    /\ r_require \in BOOLEAN
    /\ r_qlang \in QueryLanguages
    /\ scored = <<>>
    /\ r_pc = "call"
    /\ r_ret = <<>>
    /\ MmrIdle
    /\ GreedyIdle
    /\ ParamsIdle
    /\ MoreIdle

\* lines 287-303: every user of the pool filtered and scored
RecallScore ==
    /\ r_pc = "call"
    /\ scored' = ScoreUsers(r_users, 1, r_query, r_require, r_qlang, <<>>)
    /\ r_pc' = "scored"
    /\ UNCHANGED <<r_query, r_users, r_top_n, r_require, r_qlang, r_ret>>
    /\ UNCHANGED <<mmr_vars, g_vars, p_vars, more_vars>>

\* lines 305-306: sort and cut
RecallReturn ==
    /\ r_pc = "scored"
    /\ scored' = SortScored(scored)
    /\ r_ret' = SliceTo(SortScored(scored), r_top_n)
    /\ r_pc' = "done"
    /\ UNCHANGED <<r_query, r_users, r_top_n, r_require, r_qlang>>
    /\ UNCHANGED <<mmr_vars, g_vars, p_vars, more_vars>>

NextRecall == RecallScore \/ RecallReturn

SpecRecall == InitRecall /\ [][NextRecall]_vars

(***************************************************************************)
(* MatchingParams: construction (field validators) and validate_logic      *)
(***************************************************************************)
ParamsArgs ==
    [host_recall_top_n : {0, 1, 2}, host_return_top_k : {0, 1, 2},
     host_mmr_lambda : {0, 5, 10, 11},
     w_exp : {50, 60}, w_interest : {30, 40, 50}, w_goal : {0, 20, 50},
     user_top_l : {0, 20}, history_penalty : {0, 8, 11}]

\* _check_host_mmr_lambda
check_host_mmr_lambda(v) == 0 < v /\ v <= 10

\* _check_history_penalty
check_history_penalty(v) == 0 < v /\ v <= 10

\* _check_positive_ints
check_positive_ints(v) == v > 0

\* the field validators run by the constructor
FieldsValid(a) ==
    /\ check_host_mmr_lambda(a.host_mmr_lambda)
    /\ check_history_penalty(a.history_penalty)
    /\ check_positive_ints(a.host_recall_top_n)
    /\ check_positive_ints(a.host_return_top_k)
    /\ check_positive_ints(a.user_top_l)

\* mutant: w_goal left out of the sum
validate_logic_two_weights(params) ==
    /\ ~(params.host_recall_top_n < params.host_return_top_k)
    /\ LET w_sum == params.w_exp + params.w_interest
       IN  95 <= w_sum /\ w_sum <= 105

\* validate_logic returns without raising
validate_logic(params) ==
    /\ ~(params.host_recall_top_n < params.host_return_top_k)
    /\ LET w_sum == params.w_exp + params.w_interest + params.w_goal
       IN  95 <= w_sum /\ w_sum <= 105

InitParams ==
    /\ p_args \in ParamsArgs
    /\ p_params = DefaultParams
    /\ p_pc = "call"
    /\ MmrIdle
    /\ GreedyIdle
    /\ RecallIdle
    /\ MoreIdle

\* MatchingParams(**args): pydantic runs the field validators, and nothing
\* else, before the object exists
Construct ==
    /\ p_pc = "call"
    /\ IF FieldsValid(p_args)
       THEN /\ p_params' = p_args
            /\ p_pc' = "constructed"
       ELSE /\ p_pc' = "ValidationError"
            /\ UNCHANGED p_params
    /\ UNCHANGED <<p_args, mmr_vars, g_vars, r_vars, more_vars>>

\* params.validate_logic(), called by the engine's entry points
ValidateLogic ==
    /\ p_pc = "constructed"
    /\ p_pc' = IF validate_logic(p_params) THEN "valid" ELSE "ValueError"
    /\ UNCHANGED <<p_args, p_params, mmr_vars, g_vars, r_vars, more_vars>>

NextParams == Construct \/ ValidateLogic

SpecParams == InitParams /\ [][NextParams]_vars

(***************************************************************************)
(* build_user_vectors                                                      *)
(***************************************************************************)
MaxUsers == 3
\* largest list of profiles handed to build_user_vectors and to the engine
MaxCalls == 2
\* most calls of build_user_vectors on the same profiles

\* str.strip(): the one whitespace-only text of the model is " "
Strip(t) == IF t = " " THEN "" ELSE t

\* "\n".join(parts)
RECURSIVE JoinLines(_)
JoinLines(parts) ==
    IF parts = <<>> THEN ""
    ELSE IF Len(parts) = 1 THEN Head(parts)
    ELSE Head(parts) \o "\n" \o JoinLines(Tail(parts))

\* UserProfile.build_profile_text (the profiles of the model have no tags)
build_profile_text(u) ==
    LET exp_part == IF Strip(u.exp_text) # ""
                    THEN << "Experience: " \o Strip(u.exp_text) >> ELSE <<>>
        interest_part == IF Strip(u.interest_text) # ""
                         THEN << "Interests: " \o Strip(u.interest_text) >> ELSE <<>>
        goal_part == IF Strip(u.goal_text) # ""
                     THEN << "Goals: " \o Strip(u.goal_text) >> ELSE <<>>
    IN  Strip(JoinLines(exp_part \o interest_part \o goal_part))

\* UserProfile.has_need: bool(need_text and need_text.strip())
has_need(u) == u.need_text # "" /\ Strip(u.need_text) # ""

\* Embedder.encode_one: the embedder is an external, deterministic function
\* of the text; the model fixes it by a lookup table
encode_one(text) ==
    CASE text = "" -> <<0, 0>>
      [] text = " " -> <<0, 0>>
      [] text = "ml" -> <<1, 0>>
      [] text = "art" -> <<0, 1>>
      [] text = "Experience: ml" -> <<1, 0>>
      [] text = "Experience: ml\nInterests: ml" -> <<1, 0>>
      [] text = "Experience: art\nInterests: art" -> <<0, 1>>
      [] OTHER -> <<3, 4>>

\* Embedder.encode: a list of vectors aligned with texts
encode(texts) == [j \in 1..Len(texts) |-> encode_one(texts[j])]

\* the five vector fields, in the order the function encodes them
VectorFields == << "profile", "exp", "interest", "goal", "need" >>

FieldVector(u, f) ==
    CASE f = "profile" -> u.v_profile
      [] f = "exp" -> u.v_exp
      [] f = "interest" -> u.v_interest
      [] f = "goal" -> u.v_goal
      [] f = "need" -> u.v_need

\* the text appended to <field>_texts
FieldText(u, f) ==
    CASE f = "profile" -> build_profile_text(u)
      [] f = "exp" -> u.exp_text
      [] f = "interest" -> u.interest_text
      [] f = "goal" -> u.goal_text
      [] f = "need" -> u.need_text

SetFieldVector(u, f, v) ==
    CASE f = "profile" -> [u EXCEPT !.v_profile = v]
      [] f = "exp" -> [u EXCEPT !.v_exp = v]
      [] f = "interest" -> [u EXCEPT !.v_interest = v]
      [] f = "goal" -> [u EXCEPT !.v_goal = v]
      [] f = "need" -> [u EXCEPT !.v_need = v]

\* mutant: every vector computed again, whatever overwrite says
NeedsVectorAlways(overwrite, v) == TRUE

\* "overwrite or u.v_x is None"
NeedsVector(overwrite, v) == overwrite \/ v = None

\* the condition under which the first loop appends u to <field>_users
Collected(u, f, build_profile, overwrite) ==
    CASE f = "profile" -> build_profile /\ NeedsVector(overwrite, u.v_profile)
      [] f = "need" -> has_need(u) /\ NeedsVector(overwrite, u.v_need)
      [] OTHER -> NeedsVector(overwrite, FieldVector(u, f))

\* <field>_users after the first loop, as positions in users
field_users(users, f, build_profile, overwrite) ==
    SelectSeq([i \in 1..Len(users) |-> i],
              LAMBDA i : Collected(users[i], f, build_profile, overwrite))

\* <field>_texts after the first loop
field_texts(users, f, build_profile, overwrite) ==
    LET fu == field_users(users, f, build_profile, overwrite)
    IN  [j \in 1..Len(fu) |-> FieldText(users[fu[j]], f)]

\* mutant: "for u, v in zip(users, vecs)", the vectors written by position
\* in the whole list
WriteBackByPosition(users, f, fu, vecs) ==
    [i \in 1..Len(users) |->
        IF i <= Len(vecs) THEN SetFieldVector(users[i], f, vecs[i]) ELSE users[i]]

\* "for u, v in zip(<field>_users, vecs): u.v_x = v"
WriteBack(users, f, fu, vecs) ==
    [i \in 1..Len(users) |->
        IF \E j \in 1..Min(Len(fu), Len(vecs)) : fu[j] = i
        THEN LET j == CHOOSE j \in 1..Min(Len(fu), Len(vecs)) : fu[j] = i
             IN  SetFieldVector(users[i], f, vecs[j])
        ELSE users[i]]

\* the second half of the function for the fields k..5: one encode call for
\* each field whose list is not empty, then the write back.  The lists were
\* all collected from the profiles as they were at the start (users0).
RECURSIVE EncodeFields(_, _, _, _, _, _)
EncodeFields(users0, users, calls, k, build_profile, overwrite) ==
    IF k > Len(VectorFields) THEN [users |-> users, calls |-> calls]
    ELSE LET f == VectorFields[k]
             fu == field_users(users0, f, build_profile, overwrite)
             texts == field_texts(users0, f, build_profile, overwrite)
         IN  IF fu # <<>>
             THEN EncodeFields(users0, WriteBack(users, f, fu, encode(texts)),
                               Append(calls, [field |-> f, texts |-> texts]),
                               k + 1, build_profile, overwrite)
             ELSE EncodeFields(users0, users, calls, k + 1, build_profile, overwrite)

\* build_user_vectors(users, embedder, build_profile=, overwrite=): the
\* profiles afterwards and the encode calls made
build_user_vectors(users, build_profile, overwrite) ==
    EncodeFields(users, users, <<>>, 1, build_profile, overwrite)

\* profiles of the model: texts and vectors follow a few patterns
TextPatterns ==
    { [exp_text |-> "ml", interest_text |-> "art", need_text |-> ""],
      [exp_text |-> "", interest_text |-> "", need_text |-> " "],
      [exp_text |-> "art", interest_text |-> "art", need_text |-> "ml"] }

Stored == <<3, 4>>
\* a vector stored on a profile before the call

VectorPatterns ==
    { [v_profile |-> None, v_exp |-> None, v_interest |-> None,
       v_goal |-> None, v_need |-> None],
      [v_profile |-> Stored, v_exp |-> Stored, v_interest |-> Stored,
       v_goal |-> Stored, v_need |-> Stored],
      [v_profile |-> None, v_exp |-> Stored, v_interest |-> None,
       v_goal |-> None, v_need |-> None] }

MakeProfile(id, t, v) ==
    [user_id |-> id, language |-> "zh",
     exp_text |-> t.exp_text, interest_text |-> t.interest_text,
     goal_text |-> "", need_text |-> t.need_text,
     v_profile |-> v.v_profile, v_exp |-> v.v_exp, v_interest |-> v.v_interest,
     v_goal |-> v.v_goal, v_need |-> v.v_need]

\* the profile at position i has the id i
InitVectors ==
    /\ \E n \in 0..MaxUsers :
         \E ts \in [1..n -> TextPatterns], vs \in [1..n -> VectorPatterns] :
            bv_users = [i \in 1..n |-> MakeProfile(i, ts[i], vs[i])]
    /\ bv_log = <<>>
    /\ encode_calls = <<>>
    /\ MmrIdle
    /\ GreedyIdle
    /\ RecallIdle
    /\ ParamsIdle
    /\ EngineIdle
    /\ ServiceIdle
    /\ MatcherIdle
    /\ ParsingIdle

BuildUserVectors(build_profile, overwrite) ==
    /\ Len(bv_log) < MaxCalls
    /\ LET r == build_user_vectors(bv_users, build_profile, overwrite)
       IN  /\ bv_users' = r.users
           /\ encode_calls' = r.calls
    /\ bv_log' = Append(bv_log, [build_profile |-> build_profile,
                                 overwrite |-> overwrite])
    /\ UNCHANGED <<mmr_vars, g_vars, r_vars, p_vars, e_vars, s_vars, mp_vars, pj_vars>>

NextVectors == \E build_profile \in BOOLEAN, overwrite \in BOOLEAN :
                  BuildUserVectors(build_profile, overwrite)

SpecVectors == InitVectors /\ [][NextVectors]_vars

(***************************************************************************)
(* MatchingEngine: scoring, history penalty and match_experience           *)
(*                                                                         *)
(* engine.py imports its scorer under the name calculate_multi_dim_score;  *)
(* the scorer algos.py defines is calculate_similarity_score, which is the *)
(* one modelled.  MatchingParams is the class of types.py, which engine.py *)
(* imports.                                                                *)
(***************************************************************************)
NoLambda == 0 - 1
\* mmr_lambda=None

RECURSIVE Pow(_, _)
Pow(b, n) == IF n = 0 THEN 1 ELSE b * Pow(b, n - 1)

\* safe_cosine_sim, in hundredths
safe_cosine_sim(u, v) ==
    IF u = None \/ v = None THEN 0 ELSE cosine_sim(u, v)

\* calculate_similarity_score: s_exp * w_exp + s_interest * w_interest, a
\* number of ten-thousandths, returned in millionths
calculate_similarity_score(u1, u2, params) ==
    LET s_exp == safe_cosine_sim(u1.v_exp, u2.v_exp)
        s_interest == safe_cosine_sim(u1.v_interest, u2.v_interest)
    IN  (s_exp * params.w_exp + s_interest * params.w_interest) * 100

\* mutant: the key built in the order of the arguments
PairKeyAsGiven(a, b) == <<a, b>>

\* key = (a, b) if a < b else (b, a)
PairKey(a, b) == IF a < b THEN <<a, b>> ELSE <<b, a>>

\* past_pair_counts.get(key, 0)
PairCount(counts, key) == IF key \in DOMAIN counts THEN counts[key] ELSE 0

\* score * history_penalty ** cnt for a positive cnt, the score otherwise;
\* exact for the counts of the model (at most 2)
Penalized(score, cnt, params) ==
    IF cnt <= 0 THEN score
    ELSE (score * Pow(params.history_penalty, cnt)) \div Pow(10, cnt)

\* the local function apply_history of match_experience and match_needs
apply_history(score, a, b, counts, params) ==
    Penalized(score, PairCount(counts, PairKey(a, b)), params)

\* user_by_id.get(x.user_id): the last profile of the list with that id
UserById(users, id) ==
    LET ps == { i \in 1..Len(users) : users[i].user_id = id }
    IN  users[CHOOSE i \in ps : \A j \in ps : j <= i]

\* a RankedUser as mmr_select sees it through _get_rel and _get_vec
AsItem(x, users) ==
    [user_id |-> x.user_id, rel |-> x.score, vec |-> UserById(users, x.user_id).v_profile]

\* the loop of mmr_select (algos.py 117-151) as a function: the selected
\* input positions
RECURSIVE MmrLoop(_, _, _, _, _, _, _)
MmrLoop(items, sel, rem, sel_vecs, i, k, lam) ==
    IF i >= k \/ rem = <<>> THEN sel
    ELSE LET best == BestItem(items, rem, lam, sel_vecs)
         IN  IF best # 0
             THEN MmrLoop(items, Append(sel, best), RemoveFirst(items, rem, best),
                          Append(sel_vecs, get_vector(items[best])), i + 1, k, lam)
             ELSE MmrLoop(items, sel, rem, sel_vecs, i + 1, k, lam)

\* mmr_select(items, k, lam): whether it raises, and the selected positions
mmr_select(items, k, lam) ==
    IF k <= 0 \/ items = <<>> THEN [raised |-> FALSE, ret |-> <<>>]
    ELSE IF ~(0 < lam /\ lam <= 10) THEN [raised |-> TRUE, ret |-> <<>>]
    ELSE [raised |-> FALSE,
          ret |-> MmrLoop(items, <<>>, [p \in 1..Len(items) |-> p], <<>>, 0,
                          Min(k, Len(items)), lam)]

\* candidates.sort(key=lambda x: x.score, reverse=True)
SortByScore(cands) ==
    LET perm == StableDescPerm([i \in 1..Len(cands) |-> cands[i].score], Len(cands))
    IN  [i \in 1..Len(cands) |-> cands[perm[i]]]

\* mutant: the candidates below min_score kept
BelowMinAlwaysFalse(score2, min_score) == FALSE

\* "if score2 < min_score: continue"
BelowMin(score2, min_score) == score2 < min_score

\* "if v.user_id == u.user_id: continue"
SameUser(u, v) == v.user_id = u.user_id

\* engine.py 173-195: the inner loop for the profile at position i, from
\* position j on
RECURSIVE ExperienceCandidates(_, _, _, _, _, _, _)
ExperienceCandidates(users, i, j, params, counts, min_score, acc) ==
    IF j > Len(users) THEN acc
    ELSE IF SameUser(users[i], users[j])
         THEN ExperienceCandidates(users, i, j + 1, params, counts, min_score, acc)
    ELSE LET score == calculate_similarity_score(users[i], users[j], params)
             score2 == apply_history(score, users[i].user_id, users[j].user_id,
                                     counts, params)
         IN  IF BelowMin(score2, min_score)
             THEN ExperienceCandidates(users, i, j + 1, params, counts, min_score, acc)
             ELSE ExperienceCandidates(users, i, j + 1, params, counts, min_score,
                      Append(acc, [user_id |-> users[j].user_id, score |-> score2]))

\* mutant: the list not cut when MMR is off
CutNone(cands, top_k) == cands

\* candidates[:top_k]
CutTo(cands, top_k) == SliceTo(cands, top_k)

\* engine.py 200-220 (and 328-347): the optional MMR step, else the cut
SelectTopK(cands, users, params, top_k, apply_mmr, mmr_lambda) ==
    IF apply_mmr /\ cands # <<>>
    THEN LET lam == IF mmr_lambda # NoLambda THEN mmr_lambda
                    ELSE params.host_mmr_lambda
             items == [c \in 1..Len(cands) |-> AsItem(cands[c], users)]
             r == mmr_select(items, Min(top_k, Len(cands)), lam)
         IN  [raised |-> r.raised,
              list |-> [c \in 1..Len(r.ret) |-> cands[r.ret[c]]]]
    ELSE [raised |-> FALSE, list |-> CutTo(cands, top_k)]

\* the dict results after the outer loop: one key per user_id, the value
\* written for the last profile with that id
ResultsDict(users, lists) ==
    [id \in { users[i].user_id : i \in 1..Len(users) } |->
        LET ps == { i \in 1..Len(users) : users[i].user_id = id }
        IN  lists[CHOOSE i \in ps : \A j \in ps : j <= i]]

\* the outcome of an engine call
CallRaised(users, calls) ==
    [outcome |-> "ValueError", users |-> users, ret |-> <<>>, calls |-> calls]
CallReturned(users, calls, ret) ==
    [outcome |-> "returned", users |-> users, ret |-> ret, calls |-> calls]

\* mutant: the vectors built before the parameters are looked at
RaiseAfterBuild(users) ==
    LET b == build_user_vectors(users, TRUE, FALSE)
    IN  CallRaised(b.users, b.calls)

\* "params.validate_logic()" is the first statement of host_match,
\* match_experience and match_needs: its ValueError leaves the call before
\* build_user_vectors and the embedder are reached
RaiseAtEntry(users) == CallRaised(users, <<>>)

\* MatchingEngine.match_experience
match_experience(users, params, top_k, apply_mmr, mmr_lambda, min_score, counts) ==
    IF ~validate_logic(params) THEN RaiseAtEntry(users)
    ELSE LET built == build_user_vectors(users, TRUE, FALSE).users
             calls == build_user_vectors(users, TRUE, FALSE).calls
             lists == [i \in 1..Len(built) |->
                         SelectTopK(SortByScore(ExperienceCandidates(
                                        built, i, 1, params, counts, min_score, <<>>)),
                                    built, params, top_k, apply_mmr, mmr_lambda)]
         IN  IF \E i \in 1..Len(built) : lists[i].raised
             THEN CallRaised(built, calls)
             ELSE CallReturned(built, calls, ResultsDict(built, [i \in 1..Len(built) |-> lists[i].list]))

\* algos.py 176-191: the neighbours of the profile at position i
RECURSIVE Neighbors(_, _, _, _, _, _)
Neighbors(users, i, j, params, counts, acc) ==
    IF j > Len(users) THEN acc
    ELSE IF SameUser(users[i], users[j])
         THEN Neighbors(users, i, j + 1, params, counts, acc)
    ELSE LET score == calculate_similarity_score(users[i], users[j], params)
             cnt == PairCount(counts, PairKey(users[i].user_id, users[j].user_id))
         IN  Neighbors(users, i, j + 1, params, counts,
                       Append(acc, [user_id |-> users[j].user_id,
                                    score |-> Penalized(score, cnt, params)]))

\* algos.py 175-204: the edges of the profiles from position i on
RECURSIVE EdgesFrom(_, _, _, _, _)
EdgesFrom(users, i, params, top_l, counts) ==
    IF i > Len(users) THEN <<>>
    ELSE LET top_neighbors == SliceTo(SortByScore(
                                  Neighbors(users, i, 1, params, counts, <<>>)), top_l)
         IN  [n \in 1..Len(top_neighbors) |->
                 [user_a |-> users[i].user_id, user_b |-> top_neighbors[n].user_id,
                  score |-> top_neighbors[n].score]]
             \o EdgesFrom(users, i + 1, params, top_l, counts)

\* build_top_l_edges
build_top_l_edges(users, params, top_l, counts) ==
    EdgesFrom(users, 1, params, top_l, counts)

(***************************************************************************)
(* MatchingEngine: match_needs and host_match                              *)
(***************************************************************************)
\* "if a.v_need is not None and b.v_profile is not None: cosine_sim(...)"
NeedSim(a, b) ==
    IF a.v_need # None /\ b.v_profile # None
    THEN cosine_sim(a.v_need, b.v_profile) ELSE 0

\* engine.py 281-307: the score of v for u, in millionths
NeedScore(u, v, params, mode) ==
    IF mode = "reciprocal"
    THEN (calculate_similarity_score(u, v, params) \div 2)
         + (NeedSim(u, v) * SimUnit) \div 4 + (NeedSim(v, u) * SimUnit) \div 4
    ELSE NeedSim(u, v) * SimUnit

\* engine.py 277-318: the inner loop for the profile at position i; want
\* selects the list: TRUE for strong, FALSE for weak
RECURSIVE NeedCandidates(_, _, _, _, _, _, _, _, _)
NeedCandidates(users, i, j, params, mode, counts, min_score, want, acc) ==
    IF j > Len(users) THEN acc
    ELSE IF SameUser(users[i], users[j])
         THEN NeedCandidates(users, i, j + 1, params, mode, counts, min_score, want, acc)
    ELSE LET score == NeedScore(users[i], users[j], params, mode)
             score2 == apply_history(score, users[i].user_id, users[j].user_id,
                                     counts, params)
         IN  IF (score2 >= min_score) = want
             THEN NeedCandidates(users, i, j + 1, params, mode, counts, min_score, want,
                      Append(acc, [user_id |-> users[j].user_id, score |-> score2]))
             ELSE NeedCandidates(users, i, j + 1, params, mode, counts, min_score, want, acc)

\* mutant: no fill with the weak candidates
WeakFillNone(strong, weak, top_k) == strong

\* engine.py 323-326: strong, filled up to top_k with the best weak ones
WeakFill(strong, weak, top_k) ==
    IF Len(strong) < top_k
    THEN strong \o SliceTo(weak, top_k - Len(strong))
    ELSE strong

\* engine.py 268-349: the list of the profile at position i
NeedsList(users, i, params, mode, top_k, apply_mmr, mmr_lambda, min_score, counts) ==
    IF ~has_need(users[i]) THEN [raised |-> FALSE, list |-> <<>>]
    ELSE LET strong == SortByScore(NeedCandidates(users, i, 1, params, mode, counts,
                                                  min_score, TRUE, <<>>))
             weak == SortByScore(NeedCandidates(users, i, 1, params, mode, counts,
                                                min_score, FALSE, <<>>))
         IN  SelectTopK(WeakFill(strong, weak, top_k), users, params,
                        top_k, apply_mmr, mmr_lambda)

\* MatchingEngine.match_needs
match_needs(users, params, mode, top_k, apply_mmr, mmr_lambda, min_score, counts) ==
    IF ~validate_logic(params) THEN RaiseAtEntry(users)
    ELSE LET built == build_user_vectors(users, TRUE, FALSE).users
             calls == build_user_vectors(users, TRUE, FALSE).calls
             lists == [i \in 1..Len(built) |->
                         NeedsList(built, i, params, mode, top_k, apply_mmr,
                                   mmr_lambda, min_score, counts)]
         IN  IF \E i \in 1..Len(built) : lists[i].raised
             THEN CallRaised(built, calls)
             ELSE CallReturned(built, calls,
                               ResultsDict(built, [i \in 1..Len(built) |-> lists[i].list]))

\* NoOpReranker.rerank_host
rerank_host(candidates) == candidates

\* MatchingEngine.host_match with the in-memory retriever and the no-op
\* reranker: the list of RankedUser
host_match(host_text, users, params, query_language, require_same_language) ==
    IF ~validate_logic(params) THEN RaiseAtEntry(users)
    ELSE LET built == build_user_vectors(users, TRUE, FALSE).users
             calls == build_user_vectors(users, TRUE, FALSE).calls
             q_vec == encode_one(host_text)
             recalled == SliceTo(SortScored(ScoreUsers(built, 1, q_vec,
                                     require_same_language, query_language, <<>>)),
                                 params.host_recall_top_n)
             ranked == [c \in 1..Len(recalled) |->
                          [user_id |-> built[recalled[c].user].user_id,
                           score |-> recalled[c].sim * SimUnit]]
             items == [c \in 1..Len(ranked) |-> AsItem(ranked[c], built)]
             r == mmr_select(items, params.host_return_top_k, params.host_mmr_lambda)
             all_calls == Append(calls, [field |-> "host_text", texts |-> <<host_text>>])
         IN  IF r.raised THEN CallRaised(built, all_calls)
             ELSE CallReturned(built, all_calls,
                      rerank_host([c \in 1..Len(r.ret) |-> ranked[r.ret[c]]]))

(***************************************************************************)
(* The engine's entry points as actions                                    *)
(***************************************************************************)
\* pool profiles: fresh ones, without vectors, and one whose vectors were
\* stored earlier
FreshVectors ==
    [v_profile |-> None, v_exp |-> None, v_interest |-> None,
     v_goal |-> None, v_need |-> None]

StoredVectors ==
    [v_profile |-> Stored, v_exp |-> Stored, v_interest |-> Stored,
     v_goal |-> Stored, v_need |-> None]

PoolPatterns ==
    { [t |-> [exp_text |-> "ml", interest_text |-> "ml", need_text |-> ""],
       v |-> FreshVectors],
      [t |-> [exp_text |-> "art", interest_text |-> "art", need_text |-> "ml"],
       v |-> FreshVectors],
      [t |-> [exp_text |-> "ml", interest_text |-> "art", need_text |-> "art"],
       v |-> FreshVectors],
      [t |-> [exp_text |-> "ml", interest_text |-> "ml", need_text |-> ""],
       v |-> StoredVectors] }

\* weights 0.6 / 0.4 given to the constructor, the rest at its defaults
WeightsOnlyParams == [DefaultParams EXCEPT !.w_exp = 60, !.w_interest = 40]

\* weights 0.6 / 0.4 / 0.0 and small list sizes
TwoWeightParams ==
    [DefaultParams EXCEPT !.w_exp = 60, !.w_interest = 40, !.w_goal = 0,
                          !.host_recall_top_n = 2, !.host_return_top_k = 1]

\* weights that sum to 1.0, host_recall_top_n below host_return_top_k
SmallRecallParams ==
    [DefaultParams EXCEPT !.host_recall_top_n = 1, !.host_return_top_k = 2]

EngineParams == { DefaultParams, WeightsOnlyParams, TwoWeightParams, SmallRecallParams }

\* past_pair_counts, keyed by sorted id pairs
EmptyCounts == [key \in {} |-> 0]
PastPairCounts ==
    { EmptyCounts,
      [key \in { <<1, 2>> } |-> 1],
      [key \in { <<1, 2>>, <<2, 3>> } |-> IF key = <<1, 2>> THEN 2 ELSE 0] }

TopKs == {0, 1, 2}
MmrLambdas == {NoLambda, 10}
DefaultMinScore == 20000
\* min_score=0.02
MinScores == {DefaultMinScore, 500000}
NeedModes == {"reciprocal", "bipartite"}
TopLs == {1, 20}
HostTexts == {"ml", "design"}

InitEngine ==
    /\ \E n \in 0..MaxUsers : \E ps \in [1..n -> PoolPatterns] :
          e_users = [i \in 1..n |-> MakeProfile(i, ps[i].t, ps[i].v)]
    /\ e_params \in EngineParams
    /\ e_counts \in PastPairCounts
    /\ e_fn = ""
    /\ e_args = NoArgs
    /\ e_pc = "call"
    /\ e_ret = <<>>
    /\ e_encodes = <<>>
    /\ MmrIdle
    /\ GreedyIdle
    /\ RecallIdle
    /\ ParamsIdle
    /\ VectorsIdle
    /\ ServiceIdle
    /\ MatcherIdle
    /\ ParsingIdle

Finish(fn, args, r) ==
    /\ e_fn' = fn
    /\ e_args' = args
    /\ e_users' = r.users
    /\ e_pc' = r.outcome
    /\ e_ret' = r.ret
    /\ e_encodes' = r.calls
    /\ UNCHANGED <<e_params, e_counts>>
    /\ UNCHANGED <<mmr_vars, g_vars, r_vars, p_vars, bv_vars, s_vars, mp_vars, pj_vars>>

MatchExperience(top_k, apply_mmr, mmr_lambda, min_score) ==
    /\ e_pc = "call"
    /\ Finish("match_experience",
              [NoArgs EXCEPT !.top_k = top_k, !.apply_mmr = apply_mmr,
                             !.mmr_lambda = mmr_lambda, !.min_score = min_score],
              match_experience(e_users, e_params, top_k, apply_mmr, mmr_lambda,
                               min_score, e_counts))

MatchNeeds(mode, top_k, apply_mmr) ==
    /\ e_pc = "call"
    /\ Finish("match_needs",
              [NoArgs EXCEPT !.mode = mode, !.top_k = top_k, !.apply_mmr = apply_mmr,
                             !.mmr_lambda = NoLambda, !.min_score = DefaultMinScore],
              match_needs(e_users, e_params, mode, top_k, apply_mmr, NoLambda,
                          DefaultMinScore, e_counts))

HostMatch(host_text) ==
    /\ e_pc = "call"
    /\ Finish("host_match", [NoArgs EXCEPT !.host_text = host_text],
              host_match(host_text, e_users, e_params, "None", FALSE))

\* build_top_l_edges does not build vectors and does not validate params
BuildTopLEdges(top_l) ==
    /\ e_pc = "call"
    /\ Finish("build_top_l_edges", [NoArgs EXCEPT !.top_l = top_l],
              CallReturned(e_users, <<>>,
                           build_top_l_edges(e_users, e_params, top_l, e_counts)))

NextEngine ==
    \/ \E top_k \in TopKs, apply_mmr \in BOOLEAN, mmr_lambda \in MmrLambdas,
          min_score \in MinScores :
          MatchExperience(top_k, apply_mmr, mmr_lambda, min_score)
    \/ \E mode \in NeedModes, top_k \in TopKs, apply_mmr \in BOOLEAN :
          MatchNeeds(mode, top_k, apply_mmr)
    \/ \E host_text \in HostTexts : HostMatch(host_text)
    \/ \E top_l \in TopLs : BuildTopLEdges(top_l)

SpecEngine == InitEngine /\ [][NextEngine]_vars

(***************************************************************************)
(* Scoring of one pair of profiles, in both directions                     *)
(***************************************************************************)
\* a vector of a profile: absent, the zero vector or one of the vectors
PairVectors == OptVectors \cup { <<0, 0>> }

\* the ids of the two profiles, in the order of the list
PairIds == { <<1, 2>>, <<2, 1>> }

PairProfile(id, v_exp, v_interest) ==
    MakeProfile(id, [exp_text |-> "ml", interest_text |-> "art", need_text |-> ""],
                [FreshVectors EXCEPT !.v_exp = v_exp, !.v_interest = v_interest])

InitPairs ==
    /\ \E ids \in PairIds, ve \in [1..2 -> PairVectors], vi \in [1..2 -> PairVectors] :
          e_users = [i \in 1..2 |-> PairProfile(ids[i], ve[i], vi[i])]
    /\ e_params \in EngineParams
    /\ e_counts \in PastPairCounts
    /\ e_fn = ""
    /\ e_args = NoArgs
    /\ e_pc = "call"
    /\ e_ret = <<>>
    /\ e_encodes = <<>>
    /\ MmrIdle
    /\ GreedyIdle
    /\ RecallIdle
    /\ ParamsIdle
    /\ VectorsIdle
    /\ ServiceIdle
    /\ MatcherIdle
    /\ ParsingIdle

NextPairs ==
    \/ \E top_l \in TopLs : BuildTopLEdges(top_l)
    \/ \E top_k \in TopKs, min_score \in MinScores :
          MatchExperience(top_k, FALSE, NoLambda, min_score)

SpecPairs == InitPairs /\ [][NextPairs]_vars

(***************************************************************************)
(* MatchingService (service/u2u_service.py)                                *)
(*                                                                         *)
(* The service calls self.engine.match_users(users=, params=, top_k=,      *)
(* apply_mmr=, mmr_lambda=, min_score=); the engine's pool-to-pool method  *)
(* with these keywords is match_experience, which is the one modelled.     *)
(* The service imports MatchingParams from src.matching.matching_pojo, a   *)
(* module the source tree lacks: default_params is either what the class   *)
(* of types.py makes of the constructor call (w_goal at its default 0.2),  *)
(* or an object of two weights, as the constructor call and the scorer     *)
(* have it.                                                                *)
(***************************************************************************)
\* the profiles a database can hold, by id
DbIds == 1..4
DbTexts ==
    [id \in DbIds |->
        CASE id = 1 -> [exp_text |-> "ml", interest_text |-> "ml", need_text |-> ""]
          [] id = 2 -> [exp_text |-> "ml", interest_text |-> "ml", need_text |-> ""]
          [] id = 3 -> [exp_text |-> "ml", interest_text |-> "", need_text |-> ""]
          [] id = 4 -> [exp_text |-> "art", interest_text |-> "ml", need_text |-> ""]]

\* profile_dto_to_user_profile for a row whose user_embedding is NULL: a
\* fresh UserProfile, without vectors
profile_dto_to_user_profile(id) == MakeProfile(id, DbTexts[id], FreshVectors)

\* the ids a caller asks for: 5 never had a profile
AskedIds == 1..5

\* MatchingParams(..., w_exp=0.6, w_interest=0.4, ..., history_penalty=0.8)
\* as the class of types.py builds it
TypesDefaultParams == WeightsOnlyParams

\* the same call for a class of the two weights w_exp and w_interest
PojoDefaultParams == [WeightsOnlyParams EXCEPT !.w_goal = 0]

\* a set of ids as the list the repository returns, in ascending order
RECURSIVE SortedSeq(_)
SortedSeq(ids) ==
    IF ids = {} THEN <<>>
    ELSE LET m == CHOOSE m \in ids : \A o \in ids : m <= o
         IN  <<m>> \o SortedSeq(ids \ {m})

\* _get_user_by_id: whether a profile is returned, and the cache afterwards
get_user_by_id(id, db, cache, cv) ==
    IF cv /\ id \in cache THEN [found |-> TRUE, cache |-> cache]
    ELSE IF id \notin db THEN [found |-> FALSE, cache |-> cache]
    ELSE [found |-> TRUE, cache |-> IF cv THEN cache \cup {id} ELSE cache]

\* _fetch_all_users: the profiles of the database with their vectors built,
\* and the cache afterwards
fetch_all_users(db, cache, cv) ==
    LET dtos == SortedSeq(db)
        user_profiles == [i \in 1..Len(dtos) |-> profile_dto_to_user_profile(dtos[i])]
    IN  [users |-> build_user_vectors(user_profiles, TRUE, FALSE).users,
         cache |-> IF cv THEN cache \cup db ELSE cache]

\* self.engine.match_users(users=..., params=self.default_params, ...)
match_users(users, params, top_k, apply_mmr, mmr_lambda, min_score) ==
    match_experience(users, params, top_k, apply_mmr, mmr_lambda, min_score,
                     EmptyCounts)

\* matches.get(user_id_str, [])
DictGet(d, key) == IF key \in DOMAIN d THEN d[key] ELSE <<>>

Answer(out, ret, cache) == [out |-> out, ret |-> ret, cache |-> cache]

\* the value of Op at v, v being computed once
With(v, Op(_)) == CHOOSE y \in { Op(x) : x \in {v} } : TRUE

\* u2u_service.py 392-413: the pool is fetched, the engine called and the
\* list of the target taken from its result
MatchesOf(user_id, top_k, min_score, apply_mmr, mmr_lambda, db, cache, cv, params) ==
    With(fetch_all_users(db, cache, cv), LAMBDA all :
        With(match_users(all.users, params, top_k, apply_mmr, mmr_lambda, min_score),
             LAMBDA m :
                IF m.outcome = "ValueError" THEN Answer("ValueError", <<>>, all.cache)
                ELSE Answer("returned", DictGet(m.ret, user_id), all.cache)))

\* find_matches_for_user
find_matches_for_user(user_id, top_k, min_score, apply_mmr, mmr_lambda, db, cache, cv, params) ==
    With(get_user_by_id(user_id, db, cache, cv), LAMBDA target :
        IF ~target.found THEN Answer("NotFound", <<>>, target.cache)
        ELSE MatchesOf(user_id, top_k, min_score, apply_mmr, mmr_lambda,
                       db, target.cache, cv, params))

\* u2u_service.py 476-511: every ranked user is looked up again; one that is
\* not found is skipped, the others get a reason
RECURSIVE Enrich(_, _, _, _, _, _)
Enrich(ranked, j, db, cache, cv, results) ==
    IF j > Len(ranked) THEN [list |-> results, cache |-> cache]
    ELSE LET matched_user == get_user_by_id(ranked[j].user_id, db, cache, cv)
         IN  Enrich(ranked, j + 1, db, matched_user.cache, cv,
                    IF matched_user.found
                    THEN Append(results, [user_id |-> ranked[j].user_id,
                                          score |-> ranked[j].score,
                                          reason |-> "reason"])
                    ELSE results)

\* find_matches_with_reasons: the steps of find_matches_for_user, then the
\* loop over the ranked users
find_matches_with_reasons(user_id, top_k, min_score, apply_mmr, mmr_lambda, db, cache, cv, params) ==
    With(find_matches_for_user(user_id, top_k, min_score, apply_mmr, mmr_lambda,
                               db, cache, cv, params),
         LAMBDA a :
            IF a.out # "returned" THEN a
            ELSE With(Enrich(a.ret, 1, db, a.cache, cv, <<>>), LAMBDA e :
                     Answer("returned", e.list, e.cache)))

\* u2u_service.py 616-627: the dict built from the requested ids
BatchEntry(matches, user_ids) ==
    [id \in { user_ids[i] : i \in 1..Len(user_ids) } |-> DictGet(matches, id)]

\* batch_find_matches: apply_mmr and mmr_lambda at the engine's defaults
batch_find_matches(user_ids, top_k, min_score, db, cache, cv, params) ==
    With(fetch_all_users(db, cache, cv), LAMBDA all :
        With(match_users(all.users, params, top_k, TRUE, NoLambda, min_score),
             LAMBDA m :
                IF m.outcome = "ValueError" THEN Answer("ValueError", <<>>, all.cache)
                ELSE Answer("returned", BatchEntry(m.ret, user_ids), all.cache)))

\* u2u_service.py 652-661, one pass of the loop: any ValueError of
\* find_matches_with_reasons becomes an empty list
BatchPass(prev, user_id, top_k, min_score, db, cv, params) ==
    With(find_matches_with_reasons(user_id, top_k, min_score, TRUE, 5,
                                   db, prev.cache, cv, params),
         LAMBDA r :
            [results |-> [id \in DOMAIN prev.results \cup {user_id} |->
                             IF id # user_id THEN prev.results[id]
                             ELSE IF r.out = "returned" THEN r.ret ELSE <<>>],
             cache |-> r.cache])

\* batch_find_matches_with_reasons: the loop from position i on, prev being
\* the dict results and the cache so far
RECURSIVE BatchWithReasons(_, _, _, _, _, _, _, _)
BatchWithReasons(user_ids, i, top_k, min_score, db, cv, params, prev) ==
    IF i > Len(user_ids) THEN Answer("returned", prev.results, prev.cache)
    ELSE With(BatchPass(prev, user_ids[i], top_k, min_score, db, cv, params),
              LAMBDA next :
                 BatchWithReasons(user_ids, i + 1, top_k, min_score, db, cv,
                                  params, next))

batch_find_matches_with_reasons(user_ids, top_k, min_score, db, cache, cv, params) ==
    BatchWithReasons(user_ids, 1, top_k, min_score, db, cv, params,
                     [results |-> EmptyCounts, cache |-> cache])

ServiceTopKs == {2, 10}
IdLists == { <<5>>, <<1, 5>>, <<4, 3>> }

InitService ==
    /\ s_db \in SUBSET DbIds
    /\ cache_vectors \in BOOLEAN
    /\ user_profile_cache = {}
    /\ default_params \in {TypesDefaultParams, PojoDefaultParams}
    /\ s_fn = ""
    /\ s_args = NoServiceArgs
    /\ s_out = "idle"
    /\ s_ret = <<>>
    /\ MmrIdle
    /\ GreedyIdle
    /\ RecallIdle
    /\ ParamsIdle
    /\ VectorsIdle
    /\ EngineIdle
    /\ MatcherIdle
    /\ ParsingIdle

Respond(fn, args, answer) ==
    \E a \in {answer} :
        /\ s_fn' = fn
        /\ s_args' = args
        /\ s_out' = a.out
        /\ s_ret' = a.ret
        /\ user_profile_cache' = a.cache
        /\ UNCHANGED <<s_db, cache_vectors, default_params>>
        /\ UNCHANGED <<mmr_vars, g_vars, r_vars, p_vars, bv_vars, e_vars, mp_vars, pj_vars>>

FindMatchesForUser(user_id, top_k, apply_mmr) ==
    /\ s_out = "idle"
    /\ Respond("find_matches_for_user",
               [NoServiceArgs EXCEPT !.user_id = user_id, !.top_k = top_k,
                                     !.apply_mmr = apply_mmr],
               find_matches_for_user(user_id, top_k, DefaultMinScore, apply_mmr, 5,
                                     s_db, user_profile_cache, cache_vectors,
                                     default_params))

FindMatchesWithReasons(user_id, top_k, apply_mmr) ==
    /\ s_out = "idle"
    /\ Respond("find_matches_with_reasons",
               [NoServiceArgs EXCEPT !.user_id = user_id, !.top_k = top_k,
                                     !.apply_mmr = apply_mmr],
               find_matches_with_reasons(user_id, top_k, DefaultMinScore, apply_mmr, 5,
                                     s_db, user_profile_cache, cache_vectors,
                                     default_params))

BatchFindMatches(user_ids, top_k) ==
    /\ s_out = "idle"
    /\ Respond("batch_find_matches",
               [NoServiceArgs EXCEPT !.user_ids = user_ids, !.top_k = top_k,
                                     !.apply_mmr = TRUE],
               batch_find_matches(user_ids, top_k, DefaultMinScore, s_db,
                                  user_profile_cache, cache_vectors, default_params))

BatchFindMatchesWithReasons(user_ids, top_k) ==
    /\ s_out = "idle"
    /\ Respond("batch_find_matches_with_reasons",
               [NoServiceArgs EXCEPT !.user_ids = user_ids, !.top_k = top_k,
                                     !.apply_mmr = TRUE],
               batch_find_matches_with_reasons(user_ids, top_k, DefaultMinScore, s_db,
                                  user_profile_cache, cache_vectors, default_params))

\* the caller has taken the answer; the service waits for the next call
NextRequest ==
    /\ s_out \notin {"idle", "off"}
    /\ s_fn' = ""
    /\ s_args' = NoServiceArgs
    /\ s_out' = "idle"
    /\ s_ret' = <<>>
    /\ UNCHANGED <<s_db, cache_vectors, user_profile_cache, default_params>>
    /\ UNCHANGED <<mmr_vars, g_vars, r_vars, p_vars, bv_vars, e_vars, mp_vars, pj_vars>>

\* the database changes between two calls: a profile is created or deleted
DbChange(id) ==
    /\ s_out = "idle"
    /\ s_db' = IF id \in s_db THEN s_db \ {id} ELSE s_db \cup {id}
    /\ UNCHANGED <<cache_vectors, user_profile_cache, default_params,
                   s_fn, s_args, s_out, s_ret>>
    /\ UNCHANGED <<mmr_vars, g_vars, r_vars, p_vars, bv_vars, e_vars, mp_vars, pj_vars>>

\* clear_cache
ClearCache ==
    /\ s_out = "idle"
    /\ user_profile_cache' = {}
    /\ UNCHANGED <<s_db, cache_vectors, default_params, s_fn, s_args, s_out, s_ret>>
    /\ UNCHANGED <<mmr_vars, g_vars, r_vars, p_vars, bv_vars, e_vars, mp_vars, pj_vars>>

(***************************************************************************)
(* POST /api/u2u/matches (matching_service/app.py)                         *)
(*                                                                         *)
(* An optional field of the request body is a sequence: empty when the     *)
(* field is absent, else holding its value.  The application builds its    *)
(* service with cache_vectors=True.                                        *)
(***************************************************************************)
TOP_K_MIN == 1
TOP_K_MAX == 50

\* parse_int_bounded
parse_int_bounded(value, default, min_value, max_value) ==
    IF value = <<>> THEN [raised |-> FALSE, parsed |-> default]
    ELSE IF value[1] < min_value \/ value[1] > max_value
         THEN [raised |-> TRUE, parsed |-> 0]
         ELSE [raised |-> FALSE, parsed |-> value[1]]

HttpAnswer(status, out, matches, cache) ==
    [status |-> status, out |-> out, matches |-> matches, cache |-> cache]

\* app.py 174-193: the call of the service and the status made of its outcome
ServiceStatus(a) ==
    IF a.out \in {"NotFound", "ValueError"} THEN HttpAnswer(404, a.out, <<>>, a.cache)
    ELSE HttpAnswer(200, a.out, a.ret, a.cache)

\* u2u_matches: min_score and mmr_lambda are left at their defaults 0.0, 0.5
u2u_matches(target_id, top_k, apply_mmr, db, cache, cv, params) ==
    IF target_id = <<>> THEN HttpAnswer(400, "BadRequest", <<>>, cache)
    ELSE With(parse_int_bounded(top_k, 5, TOP_K_MIN, TOP_K_MAX), LAMBDA k :
            IF k.raised THEN HttpAnswer(400, "BadRequest", <<>>, cache)
            ELSE ServiceStatus(find_matches_with_reasons(target_id[1], k.parsed, 0,
                                   apply_mmr, 5, db, cache, cv, params)))

RequestTargets == { <<>> } \cup { <<id>> : id \in AskedIds }
RequestTopKs == { <<>>, <<0>>, <<2>>, <<51>> }

U2uMatches(target_id, top_k, apply_mmr) ==
    /\ s_out = "idle"
    /\ cache_vectors
    /\ \E a \in {u2u_matches(target_id, top_k, apply_mmr, s_db, user_profile_cache,
                             cache_vectors, default_params)} :
          /\ s_fn' = "u2u_matches"
          /\ s_args' = [NoServiceArgs EXCEPT
                           !.user_id = IF target_id = <<>> THEN 0 ELSE target_id[1],
                           !.top_k = IF top_k = <<>> THEN 5 ELSE top_k[1],
                           !.apply_mmr = apply_mmr]
          /\ s_out' = a.out
          /\ s_ret' = [status |-> a.status, matches |-> a.matches]
          /\ user_profile_cache' = a.cache
    /\ UNCHANGED <<s_db, cache_vectors, default_params>>
    /\ UNCHANGED <<mmr_vars, g_vars, r_vars, p_vars, bv_vars, e_vars, mp_vars, pj_vars>>

NextService ==
    \/ \E user_id \in AskedIds, top_k \in ServiceTopKs, apply_mmr \in BOOLEAN :
          FindMatchesForUser(user_id, top_k, apply_mmr)
    \/ \E user_id \in AskedIds, top_k \in ServiceTopKs, apply_mmr \in BOOLEAN :
          FindMatchesWithReasons(user_id, top_k, apply_mmr)
    \/ \E user_ids \in IdLists, top_k \in ServiceTopKs :
          BatchFindMatches(user_ids, top_k)
    \/ \E user_ids \in IdLists, top_k \in ServiceTopKs :
          BatchFindMatchesWithReasons(user_ids, top_k)
    \/ \E target_id \in RequestTargets, top_k \in RequestTopKs, apply_mmr \in BOOLEAN :
          U2uMatches(target_id, top_k, apply_mmr)
    \/ NextRequest
    \/ \E id \in DbIds : DbChange(id)
    \/ ClearCache

SpecService == InitService /\ [][NextService]_vars

(***************************************************************************)
(* match_profiles (matcher.py)                                             *)
(*                                                                         *)
(* A profile is a dict: a function from its keys to values.  The sentence  *)
(* embedder is a table from the texts of the model to integer vectors; it  *)
(* is called with normalize_embeddings=False, so the vectors have          *)
(* different lengths.  Scores are in millionths, the precision             *)
(* round(score, 6) keeps.                                                  *)
(***************************************************************************)
MaxCands == 3

Max(a, b) == IF a >= b THEN a ELSE b

\* DEFAULT_WEIGHTS, in the order of its keys
WeightFields == <<"research_areas", "interests", "bio">>
DEFAULT_WEIGHTS == [research_areas |-> 3, interests |-> 2, bio |-> 1]

\* _MODEL.encode on one text
model_encode(text) ==
    CASE text = "" -> <<0, 0>>
      [] text = "ml" -> <<1, 0>>
      [] text = "art" -> <<0, 1>>
      [] text = "design" -> <<0, 2>>
      [] OTHER -> <<0 - 1, 0>>

\* _field_text: profile.get(field, "") or ""
field_text(profile, field) ==
    IF field \in DOMAIN profile THEN profile[field] ELSE ""

\* _weighted_embedding before _normalize: the sum of emb * weights[field]
RECURSIVE WeightedSum(_, _, _)
WeightedSum(profile, weights, i) ==
    IF i > Len(WeightFields) THEN <<0, 0>>
    ELSE LET emb == model_encode(field_text(profile, WeightFields[i]))
             w == weights[WeightFields[i]]
             rest == WeightedSum(profile, weights, i + 1)
         IN  <<emb[1] * w + rest[1], emb[2] * w + rest[2]>>

\* round(x, 6) of the quotient num / den, in millionths (den > 0)
Round6(num, den) == (2 * num * One + den) \div (2 * den)

\* float(np.dot(user_vec, candidate_vec)) of the two normalized weighted
\* embeddings, rounded; _normalize returns a vector of norm 0 as it is
dot_score(user, candidate, weights) ==
    LET wu == WeightedSum(user, weights, 1)
        wc == WeightedSum(candidate, weights, 1)
    IN  IF Norm(wu) = 0 \/ Norm(wc) = 0 THEN 0
        ELSE Round6(Dot(wu, wc), Norm(wu) * Norm(wc))

\* match = dict(candidate); match["score"] = round(score, 6)
WithScore(candidate, score) ==
    [f \in DOMAIN candidate \cup {"score"} |->
        IF f = "score" THEN score ELSE candidate[f]]

\* mutant: match = candidate, the dict of the caller itself
InputAfterAlias(candidate, match) == match

\* the candidate dict of the caller after "match = dict(candidate)" and the
\* assignment to match["score"]
InputAfter(candidate, match) == candidate

\* match_profiles with the default weights: the list returned and the
\* candidates list of the caller afterwards
match_profiles(user, candidates, k) ==
    IF candidates = <<>> THEN [ret |-> <<>>, candidates |-> candidates]
    ELSE LET weights == DEFAULT_WEIGHTS
             max_k == Len(candidates)
             k2 == Min(Max(k, 0), max_k)
             matches == [i \in 1..Len(candidates) |->
                            WithScore(candidates[i],
                                      dot_score(user, candidates[i], weights))]
         IN  [ret |-> SubSeq(SortByScore(matches), 1, k2),
              candidates |-> [i \in 1..Len(candidates) |->
                                 InputAfter(candidates[i], matches[i])]]

\* the profiles of the model; 3 has no bio, 5 has no text at all
ProfileCatalogue ==
    { [id |-> 1, research_areas |-> "ml", interests |-> "ml", bio |-> "ml"],
      [id |-> 2, research_areas |-> "ml", interests |-> "art", bio |-> "design"],
      [id |-> 3, research_areas |-> "art", interests |-> "art"],
      [id |-> 4, research_areas |-> "law", interests |-> "law", bio |-> "law"],
      [id |-> 5] }

MatcherUsers ==
    { [id |-> 8, research_areas |-> "ml", interests |-> "ml", bio |-> "ml"],
      [id |-> 9, research_areas |-> "ml", interests |-> "art", bio |-> "design"] }

MatcherKs == (0 - 1)..(MaxCands + 1)

InitMatcher ==
    /\ mp_user \in MatcherUsers
    /\ \E n \in 0..MaxCands : mp_candidates \in [1..n -> ProfileCatalogue]
    /\ mp_k \in MatcherKs
    /\ mp_pc = "idle"
    /\ mp_ret = <<>>
    /\ MmrIdle
    /\ GreedyIdle
    /\ RecallIdle
    /\ ParamsIdle
    /\ VectorsIdle
    /\ EngineIdle
    /\ ServiceIdle
    /\ ParsingIdle

MatchProfiles ==
    /\ mp_pc = "idle"
    /\ LET r == match_profiles(mp_user, mp_candidates, mp_k)
       IN  /\ mp_ret' = r.ret
           /\ mp_candidates' = r.candidates
    /\ mp_pc' = "returned"
    /\ UNCHANGED <<mp_user, mp_k>>
    /\ UNCHANGED <<mmr_vars, g_vars, r_vars, p_vars, bv_vars, e_vars, s_vars, pj_vars>>

NextMatcher == MatchProfiles

SpecMatcher == InitMatcher /\ [][NextMatcher]_vars

(***************************************************************************)
(* The parsing service: src/parsing_service.  A job is a row of the table  *)
(* parsing_jobs; upload creates the row and starts a thread that runs      *)
(* _process_job_safe; confirm writes the parsed data to the table          *)
(* profiles.  Every call of a repository is one step, so that the steps of *)
(* the worker threads and of concurrent requests interleave as the calls   *)
(* to the database do.  A value that may be None is None or <<value>>.     *)
(* Three of the twenty ALLOWED_FIELDS are kept; none of them is a list.    *)
(***************************************************************************)
MaxJobs == 1

ALLOWED_EXTENSIONS == {".pdf", ".png", ".jpg", ".jpeg"}

ALLOWED_FIELDS == {"name", "email", "bio"}

_normalize_scalar(value) ==
    IF value = None THEN None
    ELSE IF Strip(value[1]) = "" THEN None ELSE <<Strip(value[1])>>

_has_value(value) == value # None /\ Strip(value[1]) # ""

\* payload is a dict: a function from keys to values
_normalize_payload(payload) ==
    [key \in ALLOWED_FIELDS |->
        IF key \in DOMAIN payload THEN _normalize_scalar(payload[key]) ELSE None]

\* the raw reply has name, email and contact.email; the other keys that
\* _map_raw_to_allowed reads map to fields left out of ALLOWED_FIELDS
_map_raw_to_allowed(raw) ==
    LET named == IF "name" \in DOMAIN raw /\ raw.name # None /\ raw.name # <<"">>
                 THEN {"name"} ELSE {}
        mailed == IF "contact" \in DOMAIN raw /\ raw.contact.email # None
                     /\ raw.contact.email # <<"">>
                  THEN {"email"} ELSE {}
    IN  [key \in named \cup mailed |->
            IF key = "name" THEN raw.name ELSE raw.contact.email]

_merge_allowed(primary, fallback) ==
    [key \in DOMAIN primary |->
        IF key \in DOMAIN fallback /\ key \in ALLOWED_FIELDS
           /\ ~ _has_value(primary[key]) /\ _has_value(fallback[key])
        THEN fallback[key] ELSE primary[key]]

\* dict.update
DictUpdate(d, other) ==
    [key \in DOMAIN d \cup DOMAIN other |->
        IF key \in DOMAIN other THEN other[key] ELSE d[key]]

\* job_repo.update_job through _update_job: a falsy status or error and a
\* parsed_data or parsed_raw of None are left out of the update; an id that
\* matches no row updates nothing
_update_job(jobs, job_id, status, error, parsed_data, parsed_raw) ==
    IF job_id \notin DOMAIN jobs THEN jobs
    ELSE [jobs EXCEPT ![job_id] =
            [user_id |-> @.user_id,
             file_path |-> @.file_path,
             status |-> IF status # None /\ status # <<"">> THEN status[1] ELSE @.status,
             error |-> IF error # None /\ error # <<"">> THEN error ELSE @.error,
             parsed_data |-> IF parsed_data # None THEN parsed_data ELSE @.parsed_data,
             parsed_raw |-> IF parsed_raw # None THEN parsed_raw ELSE @.parsed_raw]]

\* uuid4 is the next index of the table; file_path stands for the saved file
create_job(jobs, user_id, file) ==
    Append(jobs, [user_id |-> user_id, file_path |-> file, status |-> "pending",
                  error |-> None, parsed_data |-> None, parsed_raw |-> None])

\* the except branch of _process_job_safe
ExceptNoStatus(jobs, job_id, e) == _update_job(jobs, job_id, None, <<e>>, None, None)

_process_job_safe(jobs, job_id, e) == _update_job(jobs, job_id, <<"failed">>, <<e>>, None, None)

\* the last statement of _process_job
NeedsReviewEarly(jobs, job_id, normalized, parsed) == _update_job(jobs, job_id, None, None, <<normalized>>, <<parsed>>)

NeedsReview(jobs, job_id, normalized, parsed) == _update_job(jobs, job_id, <<"needs_review">>, None, <<normalized>>, <<parsed>>)

\* what _process_job computes between its two updates of the job: the text of
\* the file, the reply of the model, the normalized payload.  read_fails says
\* that open or PdfReader raises; llm is what the client does.
Raised(e) == [raised |-> TRUE, error |-> e, parsed |-> None, normalized |-> None]

Parse(file, read_fails, llm) ==
    IF file.ext \notin ALLOWED_EXTENSIONS
    THEN Raised("Unsupported file type")
    ELSE IF read_fails THEN Raised("cannot read file")
    ELSE IF file.ext = ".pdf" /\ Strip(file.content) = ""
    THEN Raised("No extractable text found in PDF")
    ELSE IF llm.kind = "raise" THEN Raised(llm.message)
    ELSE IF llm.kind # "dict" THEN Raised("LLM returned non-dict payload")
    ELSE [raised |-> FALSE, error |-> "", parsed |-> <<llm.value>>,
          normalized |-> <<_merge_allowed(_normalize_payload(llm.value),
                             _normalize_payload(_map_raw_to_allowed(llm.value)))>>]

\* the updates _apply_profile_update makes with allow_overwrite
ProfileUpdates(parsed) ==
    [key \in {k \in DOMAIN parsed : parsed[k] # None} |-> parsed[key]]

\* the error of _create_profile, "" when there is none
CreateProfileError(parsed) ==
    IF ~ _has_value(parsed["name"]) THEN "Missing required field for new profile: name"
    ELSE IF ~ _has_value(parsed["email"]) THEN "Missing required field for new profile: email"
    ELSE ""

\* GET /api/parsing/result
parsing_result(job_id, jobs) ==
    IF job_id \notin DOMAIN jobs THEN [code |-> 404, parsed_data |-> None]
    ELSE IF jobs[job_id].parsed_data = None THEN [code |-> 409, parsed_data |-> None]
    ELSE [code |-> 200, parsed_data |-> jobs[job_id].parsed_data]

\* GET /api/parsing/status
parsing_status(job_id, jobs) ==
    IF job_id \notin DOMAIN jobs THEN [code |-> 404, status |-> ""]
    ELSE [code |-> 200, status |-> jobs[job_id].status]

ParsingUsers == {1}

ConfirmCallers == {1, 2}

UploadFiles ==
    { [ext |-> ".pdf", content |-> "text"],
      [ext |-> ".pdf", content |-> " "],
      [ext |-> ".png", content |-> "bytes"],
      [ext |-> ".txt", content |-> "text"] }

LlmReplies ==
    { [kind |-> "dict", message |-> "",
       value |-> [name |-> <<"ann">>, email |-> <<" ">>,
                  contact |-> [email |-> <<"a@x">>]]],
      [kind |-> "dict", message |-> "",
       value |-> [name |-> <<" ">>, nickname |-> <<"a">>]],
      [kind |-> "list", message |-> "", value |-> <<>>],
      [kind |-> "raise", message |-> "llm unavailable", value |-> <<>>] }

ConfirmOverrides == {None, [name |-> <<"bob">>, nickname |-> <<"b">>]}

ExistingProfile == [name |-> <<"old">>, email |-> <<"o@x">>, bio |-> <<"bio">>]

NewWorker == [pc |-> "start", file |-> None, raised |-> FALSE, error |-> "",
              parsed |-> None, normalized |-> None]

IdleCaller == [pc |-> "idle", job_id |-> 0, user_id |-> 0, normalized |-> None,
               wrote |-> FALSE, response |-> None]

InitParsing ==
    /\ parsing_jobs = <<>>
    /\ workers = <<>>
    /\ profiles \in [ParsingUsers -> {None, <<ExistingProfile>>}]
    /\ confirms = [c \in ConfirmCallers |-> IdleCaller]
    /\ MmrIdle
    /\ GreedyIdle
    /\ RecallIdle
    /\ ParamsIdle
    /\ VectorsIdle
    /\ EngineIdle
    /\ ServiceIdle
    /\ MatcherIdle

OtherVars == <<mmr_vars, g_vars, r_vars, p_vars, bv_vars, e_vars, s_vars, mp_vars>>

\* POST /api/parsing/upload: create_job, then start_job; a file type that
\* _save_file refuses answers 400 and creates nothing
ParsingUpload(user_id, file) ==
    /\ Len(parsing_jobs) < MaxJobs
    /\ file.ext \in ALLOWED_EXTENSIONS
    /\ parsing_jobs' = create_job(parsing_jobs, user_id, file)
    /\ workers' = Append(workers, NewWorker)
    /\ UNCHANGED <<profiles, confirms, OtherVars>>

\* _process_job: job = self.job_repo.get_by_id(job_id)
ProcessJobGet(j) ==
    /\ j \in DOMAIN workers
    /\ workers[j].pc = "start"
    /\ workers' = [workers EXCEPT ![j] =
            IF j \in DOMAIN parsing_jobs
            THEN [@ EXCEPT !.pc = "got", !.file = <<parsing_jobs[j].file_path>>]
            ELSE [@ EXCEPT !.pc = "raised", !.raised = TRUE, !.error = "Job not found"]]
    /\ UNCHANGED <<parsing_jobs, profiles, confirms, OtherVars>>

\* _process_job: self._update_job(job_id, status="processing")
ProcessJobBegin(j) ==
    /\ j \in DOMAIN workers
    /\ workers[j].pc = "got"
    /\ parsing_jobs' = _update_job(parsing_jobs, j, <<"processing">>, None, None, None)
    /\ workers' = [workers EXCEPT ![j].pc = "processing"]
    /\ UNCHANGED <<profiles, confirms, OtherVars>>

\* _process_job from the file to the normalized payload
ProcessJobParse(j) ==
    /\ j \in DOMAIN workers
    /\ workers[j].pc = "processing"
    /\ \E read_fails \in BOOLEAN, llm \in LlmReplies :
        \E r \in {Parse(workers[j].file[1], read_fails, llm)} :
            workers' = [workers EXCEPT ![j] =
                [pc |-> IF r.raised THEN "raised" ELSE "parsed",
                 file |-> @.file, raised |-> r.raised, error |-> r.error,
                 parsed |-> r.parsed, normalized |-> r.normalized]]
    /\ UNCHANGED <<parsing_jobs, profiles, confirms, OtherVars>>

\* _process_job: self._update_job(job_id, status="needs_review", ...)
ProcessJobEnd(j) ==
    /\ j \in DOMAIN workers
    /\ workers[j].pc = "parsed"
    /\ parsing_jobs' = NeedsReview(parsing_jobs, j, workers[j].normalized[1],
                                   workers[j].parsed[1])
    /\ workers' = [workers EXCEPT ![j].pc = "done"]
    /\ UNCHANGED <<profiles, confirms, OtherVars>>

\* _process_job_safe: except Exception as e
ProcessJobExcept(j) ==
    /\ j \in DOMAIN workers
    /\ workers[j].pc = "raised"
    /\ parsing_jobs' = _process_job_safe(parsing_jobs, j, workers[j].error)
    /\ workers' = [workers EXCEPT ![j].pc = "done"]
    /\ UNCHANGED <<profiles, confirms, OtherVars>>

Worker(j) ==
    \/ ProcessJobGet(j)
    \/ ProcessJobBegin(j)
    \/ ProcessJobParse(j)
    \/ ProcessJobEnd(j)
    \/ ProcessJobExcept(j)

\* parsing_confirm answers 400 with the message of whatever confirm_job raises
Refused(job_id, wrote, message) ==
    [pc |-> "idle", job_id |-> job_id, user_id |-> 0, normalized |-> None,
     wrote |-> wrote, response |-> <<[code |-> 400, error |-> message]>>]

\* confirm_job: job = self.job_repo.get_by_id(job_id), the three checks on
\* the row that was read, final_data and its normalization
ConfirmJobGet(c, job_id, overrides) ==
    /\ confirms[c].pc = "idle"
    /\ confirms' = [confirms EXCEPT ![c] =
        IF job_id \notin DOMAIN parsing_jobs
        THEN Refused(job_id, FALSE, "Job not found")
        ELSE IF parsing_jobs[job_id].status = "confirmed"
        THEN Refused(job_id, FALSE, "Job already confirmed")
        ELSE IF parsing_jobs[job_id].parsed_data = None
        THEN Refused(job_id, FALSE, "No parsed_data available for this job")
        ELSE [pc |-> "apply", job_id |-> job_id,
              user_id |-> parsing_jobs[job_id].user_id,
              normalized |-> <<_normalize_payload(
                    IF DOMAIN overrides # {}
                    THEN DictUpdate(parsing_jobs[job_id].parsed_data[1], overrides)
                    ELSE parsing_jobs[job_id].parsed_data[1])>>,
              wrote |-> FALSE, response |-> None]]
    /\ UNCHANGED <<parsing_jobs, profiles, workers, OtherVars>>

\* _apply_profile_update: existing = self.profile_repo.get_by_id(user_id),
\* then the checks of _create_profile or the building of updates
ApplyProfileGet(c) ==
    /\ confirms[c].pc = "apply"
    /\ confirms' = [confirms EXCEPT ![c] =
        IF profiles[@.user_id] = None
        THEN IF CreateProfileError(@.normalized[1]) # ""
             THEN Refused(@.job_id, FALSE, CreateProfileError(@.normalized[1]))
             ELSE [@ EXCEPT !.pc = "create"]
        ELSE IF DOMAIN ProfileUpdates(@.normalized[1]) = {}
             THEN [@ EXCEPT !.pc = "confirm"]
             ELSE [@ EXCEPT !.pc = "update"]]
    /\ UNCHANGED <<parsing_jobs, profiles, workers, OtherVars>>

\* profile_repo.create_profile(payload): the insert of a row whose id is
\* already in the table fails
ApplyProfileCreate(c) ==
    /\ confirms[c].pc = "create"
    /\ IF profiles[confirms[c].user_id] # None
       THEN /\ confirms' = [confirms EXCEPT ![c] =
                    Refused(@.job_id, FALSE, "Failed to create record in profiles")]
            /\ UNCHANGED profiles
       ELSE /\ profiles' = [profiles EXCEPT ![confirms[c].user_id] =
                    <<confirms[c].normalized[1]>>]
            /\ confirms' = [confirms EXCEPT ![c].pc = "confirm", ![c].wrote = TRUE]
    /\ UNCHANGED <<parsing_jobs, workers, OtherVars>>

\* profile_repo.update_profile(user_id, updates)
ApplyProfileUpdate(c) ==
    /\ confirms[c].pc = "update"
    /\ profiles' = [profiles EXCEPT ![confirms[c].user_id] =
            IF @ = None THEN None
            ELSE <<DictUpdate(@[1], ProfileUpdates(confirms[c].normalized[1]))>>]
    /\ confirms' = [confirms EXCEPT ![c].pc = "confirm", ![c].wrote = TRUE]
    /\ UNCHANGED <<parsing_jobs, workers, OtherVars>>

\* confirm_job: self._update_job(job_id, status="confirmed", ...), and the
\* answer 200 of parsing_confirm
ConfirmJobEnd(c) ==
    /\ confirms[c].pc = "confirm"
    /\ parsing_jobs' = _update_job(parsing_jobs, confirms[c].job_id, <<"confirmed">>,
                                   None, confirms[c].normalized, None)
    /\ confirms' = [confirms EXCEPT ![c] =
            [pc |-> "idle", job_id |-> @.job_id, user_id |-> 0, normalized |-> None,
             wrote |-> @.wrote, response |-> <<[code |-> 200, error |-> ""]>>]]
    /\ UNCHANGED <<profiles, workers, OtherVars>>

NextParsing ==
    \/ \E user_id \in ParsingUsers, file \in UploadFiles : ParsingUpload(user_id, file)
    \/ \E j \in 1..MaxJobs : Worker(j)
    \/ \E c \in DOMAIN confirms, job_id \in 1..MaxJobs, overrides \in ConfirmOverrides :
            ConfirmJobGet(c, job_id, overrides)
    \/ \E c \in DOMAIN confirms : ApplyProfileGet(c)
    \/ \E c \in DOMAIN confirms : ApplyProfileCreate(c)
    \/ \E c \in DOMAIN confirms : ApplyProfileUpdate(c)
    \/ \E c \in DOMAIN confirms : ConfirmJobEnd(c)

SpecParsing == InitParsing /\ [][NextParsing]_vars

\* start_job makes a thread for the job, and a thread that can take a step
\* is scheduled
SpecParsingFair == SpecParsing /\ \A j \in 1..MaxJobs : WF_vars(Worker(j))

(***************************************************************************)
(* Properties of mmr_select                                                *)
(***************************************************************************)
Range(s) == { s[i] : i \in 1..Len(s) }
Identity(n) == [p \in 1..n |-> p]
RelOf(p) == get_relevance(mmr_items[p])
SortedByRelevance == \A i \in 1..(Len(mmr_items) - 1) : RelOf(i) >= RelOf(i + 1)

\* C1: for a valid lambda, mmr_select returns exactly min(k, len(items)) items
\* (none when k <= 0), each a position of the input, no position twice.
C1_ResultSize ==
    mmr_pc = "done" =>
        /\ Len(mmr_ret) = (IF mmr_k <= 0 THEN 0 ELSE Min(mmr_k, Len(mmr_items)))
        /\ \A i \in 1..Len(mmr_ret) : mmr_ret[i] \in 1..Len(mmr_items)
        /\ \A i, j \in 1..Len(mmr_ret) : i # j => mmr_ret[i] # mmr_ret[j]

\* a call on three items, two of them equal, that returned two
C1_Witness ==
    /\ mmr_pc = "done"
    /\ Len(mmr_items) = 3
    /\ mmr_items[1] = mmr_items[3]
    /\ mmr_k = 2
    /\ Len(mmr_ret) = 2

\* C2: with lambda = 1.0 the result is the first k items of the input in the
\* order of relevance descending, equal relevances in input order, whatever
\* the vectors are.
C2_PureRelevance ==
    (mmr_pc = "done" /\ mmr_lam = 10) =>
        /\ Len(mmr_ret) = (IF mmr_k <= 0 THEN 0 ELSE Min(mmr_k, Len(mmr_items)))
        /\ \A i \in 1..(Len(mmr_ret) - 1) :
              \/ RelOf(mmr_ret[i]) > RelOf(mmr_ret[i + 1])
              \/ RelOf(mmr_ret[i]) = RelOf(mmr_ret[i + 1]) /\ mmr_ret[i] < mmr_ret[i + 1]
        /\ \A p \in Range(mmr_ret) : \A q \in (1..Len(mmr_items)) \ Range(mmr_ret) :
              \/ RelOf(p) > RelOf(q)
              \/ RelOf(p) = RelOf(q) /\ p < q

\* lambda = 1.0, two returned items with the same vector and a less relevant
\* item with another vector left out
C2_Witness ==
    /\ mmr_pc = "done"
    /\ mmr_lam = 10
    /\ Len(mmr_items) = 3
    /\ Len(mmr_ret) = 2
    /\ get_vector(mmr_items[mmr_ret[1]]) # None
    /\ get_vector(mmr_items[mmr_ret[1]]) = get_vector(mmr_items[mmr_ret[2]])
    /\ \E q \in 1..3 : q \notin Range(mmr_ret) /\ get_vector(mmr_items[q]) = <<0, 1>>
    /\ mmr_ret[1] > mmr_ret[2]

\* C3 as stated: when len(items) <= k the items are returned unchanged, in
\* the order of the input.
C3_Unchanged ==
    (mmr_pc = "done" /\ Len(mmr_items) <= mmr_k) => mmr_ret = Identity(Len(mmr_items))

\* C3 amended: when len(items) <= k every item is returned exactly once, in
\* the order of the MMR selection; that order is the input order when
\* lambda = 1.0 and the input is ordered by relevance descending.
C3_AllReturned ==
    (mmr_pc = "done" /\ Len(mmr_items) <= mmr_k) =>
        /\ Len(mmr_ret) = Len(mmr_items)
        /\ Range(mmr_ret) = 1..Len(mmr_items)
        /\ (mmr_lam = 10 /\ SortedByRelevance) => mmr_ret = Identity(Len(mmr_items))

\* three items, k = 3, returned in another order than the input's
C3_Witness ==
    /\ mmr_pc = "done"
    /\ Len(mmr_items) = 3
    /\ mmr_k = 3
    /\ Len(mmr_ret) = 3
    /\ mmr_ret # Identity(3)

\* the unselected positions that reach the highest MMR value of a pass
TiedBest(rem, sel_vecs) ==
    { p \in Range(rem) :
        \A q \in Range(rem) :
            mmr_score(mmr_items[p], mmr_lam, sel_vecs)
                >= mmr_score(mmr_items[q], mmr_lam, sel_vecs) }

IsSelection == mmr_pc = "loop" /\ Len(selected') = Len(selected) + 1
Picked == selected'[Len(selected')]

\* C4 as stated: at every selection step, among the unselected items that tie
\* on the highest MMR value the one of higher raw relevance is chosen, and
\* among those still tied the earliest of the input.
C4_TieByRelevance ==
    [][IsSelection =>
        LET T == TiedBest(remaining, selected_vecs)
        IN  /\ Picked \in T
            /\ \A q \in T : RelOf(Picked) >= RelOf(q)
            /\ \A q \in T : RelOf(q) = RelOf(Picked) => Picked <= q]_vars

\* C4 amended: at every selection step, among the unselected items that tie
\* on the highest MMR value the earliest of the input is chosen; it is the
\* one of highest raw relevance among them when the input is ordered by
\* relevance descending.
C4_TieByPosition ==
    [][IsSelection =>
        LET T == TiedBest(remaining, selected_vecs)
        IN  /\ Picked \in T
            /\ \A q \in T : Picked <= q
            /\ SortedByRelevance => \A q \in T : RelOf(Picked) >= RelOf(q)]_vars

\* a finished call whose second pick was tied on the MMR value with an
\* unselected item of another relevance
C4_Witness ==
    /\ mmr_pc = "done"
    /\ Len(mmr_ret) >= 2
    /\ LET rem == SelectSeq(Identity(Len(mmr_items)), LAMBDA p : p # mmr_ret[1])
           T == TiedBest(rem, <<get_vector(mmr_items[mmr_ret[1]])>>)
       IN  /\ mmr_ret[2] \in T
           /\ \E q \in T : RelOf(q) # RelOf(mmr_ret[2])

(***************************************************************************)
(* Properties of greedy_max_weight_matching                                *)
(***************************************************************************)
Endpoints(e) == {e.user_a, e.user_b}
IdsOf(edges) == UNION { Endpoints(edges[i]) : i \in 1..Len(edges) }

\* C5: the returned pairs are pairwise disjoint: no user id is an endpoint
\* of more than one returned edge.
C5_Disjoint ==
    g_pc = "done" =>
        \A i, j \in 1..Len(g_ret) :
            i # j => Endpoints(g_ret[i]) \cap Endpoints(g_ret[j]) = {}

\* three edges between different users, on three different pairs: the
\* first is returned, the other two share a user with it and are left out
C5_Witness ==
    /\ g_pc = "done"
    /\ Len(g_edges) = 3
    /\ \A i \in 1..3 : g_edges[i].user_a # g_edges[i].user_b
    /\ \A i, j \in 1..3 : i # j => sorted_ids(g_edges[i]) # sorted_ids(g_edges[j])
    /\ g_ret = <<g_edges[1]>>

\* C6: for every edge list, self-loops and (a,b) with (b,a) included, at
\* most floor(d / 2) edges are returned, d the number of distinct ids of the
\* input.
C6_AtMostHalf ==
    g_pc = "done" => Len(g_ret) <= Cardinality(IdsOf(g_edges)) \div 2

\* the permutations of 1..n
Perms(n) == { f \in [1..n -> 1..n] : \A i, j \in 1..n : i # j => f[i] # f[j] }
Permuted(edges, f) == [i \in 1..Len(edges) |-> edges[f[i]]]

\* lexicographic order of canonical id pairs
PairLeq(x, y) == x[1] < y[1] \/ (x[1] = y[1] /\ x[2] <= y[2])

\* the pairing as a set of canonical pairs with their scores
Pairing(edges) == { <<sorted_ids(edges[i]), edges[i].score>> : i \in 1..Len(edges) }

NoSelfLoop(edges) == \A i \in 1..Len(edges) : edges[i].user_a # edges[i].user_b

\* C7 as stated, on the edge lists without self-loop (the self-loops are the
\* matter of C6): the edges are scanned in descending score order with equal
\* scores ordered by canonical id pair, and the output is the same for
\* every permutation of the input.
C7_PermutationInvariant ==
    (g_pc = "done" /\ NoSelfLoop(g_edges)) =>
        /\ \A i, j \in 1..Len(sorted_edges) :
              i < j => \/ sorted_edges[i].score > sorted_edges[j].score
                       \/ /\ sorted_edges[i].score = sorted_edges[j].score
                          /\ PairLeq(sorted_ids(sorted_edges[i]), sorted_ids(sorted_edges[j]))
        /\ \A f \in Perms(Len(g_edges)) :
              Pairing(greedy_max_weight_matching(Permuted(g_edges, f))) = Pairing(g_ret)

\* f keeps the relative order of the edges of equal score
KeepsTies(edges, f) ==
    \A i, j \in 1..Len(edges) :
        (i < j /\ edges[f[i]].score = edges[f[j]].score) => f[i] < f[j]

\* C7 amended: the edges are scanned in descending score order with equal
\* scores kept in input order, and the output is the same for every
\* permutation of the input that keeps the relative order of the edges of
\* equal score.
C7_StableOrder ==
    g_pc = "done" =>
        /\ \E f \in Perms(Len(g_edges)) :
              /\ sorted_edges = Permuted(g_edges, f)
              /\ \A i, j \in 1..Len(g_edges) :
                    i < j => \/ g_edges[f[i]].score > g_edges[f[j]].score
                             \/ /\ g_edges[f[i]].score = g_edges[f[j]].score
                                /\ f[i] < f[j]
        /\ \A f \in Perms(Len(g_edges)) :
              KeepsTies(g_edges, f) =>
                  greedy_max_weight_matching(Permuted(g_edges, f)) = g_ret

\* three edges, the low score first and two equal higher scores that share
\* an endpoint: the first of the two in the input was taken
C7_Witness ==
    /\ g_pc = "done"
    /\ Len(g_edges) = 3
    /\ g_edges[1].score < g_edges[2].score
    /\ g_edges[2].score = g_edges[3].score
    /\ g_edges[2].user_a # g_edges[2].user_b
    /\ g_edges[3].user_a # g_edges[3].user_b
    /\ sorted_ids(g_edges[2]) # sorted_ids(g_edges[3])
    /\ Endpoints(g_edges[2]) \cap Endpoints(g_edges[3]) # {}
    /\ g_ret[1] = g_edges[2]
    /\ ~PairLeq(sorted_ids(g_edges[2]), sorted_ids(g_edges[3]))

(***************************************************************************)
(* Properties of recall_host_candidates                                    *)
(***************************************************************************)
\* the pool positions that have a combined vector and pass the language
\* filter
Eligible ==
    { p \in 1..Len(r_users) :
        /\ r_users[p].v_profile # None
        /\ (r_require /\ r_qlang \notin {"None", ""})
              => Lower(r_users[p].language) = Lower(r_qlang) }

SimOf(p) == cosine_sim(r_users[p].v_profile, r_query)
Returned == { r_ret[i].user : i \in 1..Len(r_ret) }

\* C8: the result is sorted by similarity descending, has min(top_n, number
\* of eligible profiles) entries, each an eligible profile with its
\* similarity, none without a combined vector, and no eligible profile left
\* out is strictly more similar than a returned one.
C8_TopN ==
    r_pc = "done" =>
        /\ Len(r_ret) = Min(r_top_n, Cardinality(Eligible))
        /\ \A i \in 1..(Len(r_ret) - 1) : r_ret[i].sim >= r_ret[i + 1].sim
        /\ \A i \in 1..Len(r_ret) :
              /\ r_ret[i].user \in Eligible
              /\ r_ret[i].sim = SimOf(r_ret[i].user)
        /\ \A i, j \in 1..Len(r_ret) : i # j => r_ret[i].user # r_ret[j].user
        /\ \A p \in Eligible \ Returned : \A q \in Returned : SimOf(p) <= SimOf(q)

\* a pool of three with the filter on: one profile without vector, one
\* eligible thanks to lower(), one returned and one less similar left out
C8_Witness ==
    /\ r_pc = "done"
    /\ Len(r_users) = 3
    /\ r_require /\ r_qlang = "zh"
    /\ \E p \in 1..3 : r_users[p].v_profile = None
    /\ Cardinality(Eligible) = 2
    /\ r_top_n = 1
    /\ Len(r_ret) = 1
    /\ \E p \in Eligible \ Returned : SimOf(p) < r_ret[1].sim

\* C9: profiles of equal similarity come in the order of the pool, and when
\* the cut falls inside a group of equal similarity the first seen in the
\* pool are kept.
C9_StableTies ==
    r_pc = "done" =>
        /\ \A i, j \in 1..Len(r_ret) :
              (i < j /\ r_ret[i].sim = r_ret[j].sim) => r_ret[i].user < r_ret[j].user
        /\ \A p \in Eligible \ Returned : \A q \in Returned :
              SimOf(p) = SimOf(q) => q < p

\* two returned profiles of equal similarity and a third of the same
\* similarity cut off
C9_Witness ==
    /\ r_pc = "done"
    /\ Len(r_ret) = 2
    /\ r_ret[1].sim = r_ret[2].sim
    /\ \E p \in Eligible \ Returned : SimOf(p) = r_ret[2].sim

(***************************************************************************)
(* Properties of MatchingParams                                            *)
(***************************************************************************)
WeightSum == p_params.w_exp + p_params.w_interest + p_params.w_goal

FieldNames == Range(VectorFields)

\* the calls of encode made for the field f
CallsFor(calls, f) == { c \in 1..Len(calls) : calls[c].field = f }

\* profile u lacks (or, with overwrite, is to get again) the vector of f
Wants(u, f, args) ==
    /\ args.overwrite \/ FieldVector(u, f) = None
    /\ f = "profile" => args.build_profile
    /\ f = "need" => u.need_text \notin {"", " "}

LastCall(log) == log[Len(log)]

\* C19: one call of build_user_vectors makes at most one encode call for
\* each of the five vector fields, none for a field that no profile needs,
\* and gives every profile that needs a field the vector of its own text,
\* leaving the other vectors as they were.
C19_OneBatchPerField ==
    [][ bv_log' # bv_log =>
          LET args == LastCall(bv_log')
          IN  /\ \A f \in FieldNames :
                    /\ Cardinality(CallsFor(encode_calls', f)) <= 1
                    /\ (\A i \in 1..Len(bv_users) : ~Wants(bv_users[i], f, args))
                          => CallsFor(encode_calls', f) = {}
              /\ Len(bv_users') = Len(bv_users)
              /\ \A i \in 1..Len(bv_users) : \A f \in FieldNames :
                    FieldVector(bv_users'[i], f) =
                        IF Wants(bv_users[i], f, args)
                        THEN encode_one(FieldText(bv_users[i], f))
                        ELSE FieldVector(bv_users[i], f) ]_vars

\* a call without build_profile has skipped the first profile, whose
\* experience vector was stored, and encoded the experience text of a later one
C19_Witness ==
    /\ Len(bv_log) = 1
    /\ ~LastCall(bv_log).overwrite
    /\ Len(bv_users) >= 2
    /\ bv_users[1].v_exp = Stored
    /\ bv_users[2].v_exp = <<0, 1>>
    /\ \E c \in 1..Len(encode_calls) :
          /\ encode_calls[c].field = "exp"
          /\ Len(encode_calls[c].texts) < Len(bv_users)
    /\ CallsFor(encode_calls, "profile") = {}

\* a call build_user_vectors(users, overwrite=False) has completed
Populated(log) ==
    \E c \in 1..Len(log) : log[c].build_profile /\ ~log[c].overwrite

\* C20: once build_user_vectors(users, overwrite=False) has run, a further
\* call with overwrite=False makes no encode call and changes no vector;
\* and no call with overwrite=False replaces a vector that is present.
C20_Idempotent ==
    [][ (bv_log' # bv_log /\ ~LastCall(bv_log').overwrite) =>
          /\ Populated(bv_log) => (encode_calls' = <<>> /\ bv_users' = bv_users)
          /\ \A i \in 1..Len(bv_users) : \A f \in FieldNames :
                FieldVector(bv_users[i], f) # None
                   => FieldVector(bv_users'[i], f) = FieldVector(bv_users[i], f) ]_vars

\* the second call with overwrite=False has run on profiles of which one
\* came with a stored vector and got the others from the first call
C20_Witness ==
    /\ Len(bv_log) = 2
    /\ bv_log[1].build_profile /\ ~bv_log[1].overwrite
    /\ ~bv_log[2].overwrite
    /\ encode_calls = <<>>
    /\ \E i \in 1..Len(bv_users) :
          /\ bv_users[i].v_exp = Stored
          /\ bv_users[i].v_interest = <<0, 1>>
          /\ bv_users[i].v_need = None
    /\ \E i \in 1..Len(bv_users) : bv_users[i].v_need = <<1, 0>>

(***************************************************************************)
(* Properties of the engine's pool-to-pool matching                        *)
(***************************************************************************)
PoolIds == { e_users[i].user_id : i \in 1..Len(e_users) }

\* the profile of the pool with the given id (ids are pairwise distinct)
Member(id) == e_users[CHOOSE i \in 1..Len(e_users) : e_users[i].user_id = id]

\* the pair-history count of the unordered pair {a, b}
HistoryCount(a, b) ==
    LET lo == IF a <= b THEN a ELSE b
        hi == IF a <= b THEN b ELSE a
    IN  IF <<lo, hi>> \in DOMAIN e_counts THEN e_counts[<<lo, hi>>] ELSE 0

\* the weighted similarity of the two profiles, before any penalty
Unpenalized(a, b) ==
    (safe_cosine_sim(Member(a).v_exp, Member(b).v_exp) * e_params.w_exp
     + safe_cosine_sim(Member(a).v_interest, Member(b).v_interest) * e_params.w_interest)
    * 100

\* score = s * history_penalty ^ c, for c >= 0, without division
IsPenalized(score, a, b) ==
    LET c == HistoryCount(a, b)
    IN  score * Pow(10, c) = Unpenalized(a, b) * Pow(e_params.history_penalty, c)

ExperienceReturned == e_fn = "match_experience" /\ e_pc = "returned"

\* C11: the score of a pair with unpenalized score s and pair-history count
\* c >= 1 is s * history_penalty^c, both in the lists of match_experience and
\* on the edges of build_top_l_edges; with count 0, or no count, it is s.
C11_HistoryPenalty ==
    /\ ExperienceReturned =>
          \A id \in DOMAIN e_ret : \A j \in 1..Len(e_ret[id]) :
              IsPenalized(e_ret[id][j].score, id, e_ret[id][j].user_id)
    /\ (e_fn = "build_top_l_edges" /\ e_pc = "returned") =>
          \A j \in 1..Len(e_ret) :
              IsPenalized(e_ret[j].score, e_ret[j].user_a, e_ret[j].user_b)

\* the list of profile 2 holds profile 1 at 0.8^2 of a positive score, and
\* profile 3, whose count with 2 is recorded as 0, at the full score
C11_Witness ==
    /\ ExperienceReturned
    /\ HistoryCount(1, 2) = 2
    /\ 2 \in DOMAIN e_ret
    /\ \E j \in 1..Len(e_ret[2]) :
          /\ e_ret[2][j].user_id = 1
          /\ e_ret[2][j].score > 0
          /\ e_ret[2][j].score * 100 = Unpenalized(2, 1) * 64
    /\ \E j \in 1..Len(e_ret[2]) :
          /\ e_ret[2][j].user_id = 3
          /\ e_ret[2][j].score = Unpenalized(2, 3)

\* C12: in the mapping of match_experience the list of u never contains u,
\* and every entry has a score, after the penalty, of at least min_score.
C12_NoSelfAboveMin ==
    ExperienceReturned =>
        \A id \in DOMAIN e_ret : \A j \in 1..Len(e_ret[id]) :
            /\ e_ret[id][j].user_id # id
            /\ e_ret[id][j].score >= e_args.min_score

\* a pair with a positive score below min_score was left out, another kept
C12_Witness ==
    /\ ExperienceReturned
    /\ e_args.top_k = 2
    /\ \E id \in DOMAIN e_ret : \E other \in PoolIds \ {id} :
          /\ Len(e_ret[id]) = 1
          /\ e_ret[id][1].user_id # other
          /\ Unpenalized(id, other) > 0

\* C13: for a pool of pairwise distinct ids the mapping of match_experience
\* has exactly one key for each profile of the pool, and each list has at
\* most top_k entries with pairwise distinct candidate ids, with MMR or not.
C13_KeysAndLists ==
    ExperienceReturned =>
        /\ DOMAIN e_ret = PoolIds
        /\ \A id \in DOMAIN e_ret :
              /\ Len(e_ret[id]) <= e_args.top_k
              /\ \A j, h \in 1..Len(e_ret[id]) :
                    e_ret[id][j].user_id = e_ret[id][h].user_id => j = h

\* with MMR, a profile with two candidates above min_score got a list of one
C13_Witness ==
    /\ ExperienceReturned
    /\ e_args.apply_mmr
    /\ e_args.top_k = 1
    /\ \E id \in DOMAIN e_ret :
          /\ Len(e_ret[id]) = 1
          /\ Cardinality({ o \in PoolIds \ {id} :
                 Unpenalized(id, o) >= e_args.min_score /\ HistoryCount(id, o) = 0 }) = 2

\* A and B have the same experience and interest vectors, C is orthogonal
ScenarioPool ==
    /\ Len(e_users) = 3
    /\ \A i \in 1..2 : /\ e_users[i].exp_text = "ml"
                       /\ e_users[i].interest_text = "ml"
                       /\ e_users[i].v_exp # Stored
    /\ e_users[3].exp_text = "art" /\ e_users[3].interest_text = "art"

\* C14: on the pool A, B, C, with MatchingParams built with the weights
\* 0.6 / 0.4, match_experience returns; the first entry of A's list is B with
\* score 1.0 and the first entry of B's list is A.
C14_Scenario ==
    (/\ e_fn = "match_experience"
     /\ ScenarioPool
     /\ e_params = WeightsOnlyParams
     /\ e_counts = EmptyCounts
     /\ e_args.top_k >= 1
     /\ e_args.min_score = DefaultMinScore)
    => /\ e_pc = "returned"
       /\ e_ret[1][1] = [user_id |-> 2, score |-> One]
       /\ e_ret[2][1].user_id = 1

(***************************************************************************)
(* Properties of the engine on degraded data                               *)
(***************************************************************************)
\* the score of candidate b for a in the call made, after the penalty,
\* times 10^c (c the pair-history count) to stay in the integers
CallScore(a, b) ==
    LET c == HistoryCount(a, b)
        s == IF e_fn = "match_needs"
             THEN NeedScore(Member(a), Member(b), e_params, e_args.mode)
             ELSE Unpenalized(a, b)
    IN  s * Pow(e_params.history_penalty, c)

\* candidate b reaches the minimum score for a
Reaches(a, b) ==
    CallScore(a, b) >= e_args.min_score * Pow(10, HistoryCount(a, b))

NoneReaches(a) == \A b \in PoolIds \ {a} : ~Reaches(a, b)

MatchCall == e_fn \in {"host_match", "match_experience", "match_needs"}

\* the calls with valid params return, and return nothing for an empty pool
NeverRaises ==
    (MatchCall /\ validate_logic(e_params)) =>
        /\ e_pc = "returned"
        /\ e_users = <<>> => e_ret = <<>>

Answered == s_out \in {"returned", "NotFound", "ValueError"}
SingleCall == s_fn \in {"find_matches_for_user", "find_matches_with_reasons"}
BatchCall == s_fn \in {"batch_find_matches", "batch_find_matches_with_reasons"}
AskedInBatch == { s_args.user_ids[i] : i \in 1..Len(s_args.user_ids) }

\* C16: every entry point reports an id without a profile as not found: the
\* single-id entry points end with the not-found error, and a batch answer
\* holds no empty match list under such an id.
C16_NotFoundDistinct ==
    /\ (Answered /\ SingleCall /\ s_args.user_id \notin s_db) => s_out = "NotFound"
    /\ (Answered /\ BatchCall /\ s_out = "returned") =>
          \A id \in AskedInBatch \ s_db :
              ~(id \in DOMAIN s_ret /\ s_ret[id] = <<>>)

ScoresDescending(list) ==
    \A j \in 1..Len(list) - 1 : list[j].score >= list[j + 1].score

\* C17: the list find_matches_for_user returns is sorted by score
\* descending, whatever apply_mmr is.
C17_SortedDescending ==
    (s_fn = "find_matches_for_user" /\ s_out = "returned") => ScoresDescending(s_ret)

(***************************************************************************)
(* Properties of match_profiles                                            *)
(***************************************************************************)
\* the record is the candidate with all its fields, and a score besides
CandidateWithScore(rec, cand) ==
    /\ DOMAIN rec = DOMAIN cand \cup {"score"}
    /\ \A f \in DOMAIN cand : rec[f] = cand[f]

\* C18: match_profiles(user, candidates, k) returns min(max(k, 0),
\* len(candidates)) records sorted by score descending, each one input
\* candidate with its fields plus a score, no candidate of the list taken
\* twice, and leaves the candidate dicts as they were; an empty list gives
\* an empty list.
C18_MatchProfiles ==
    [][(mp_pc = "idle" /\ mp_pc' = "returned") =>
          /\ Len(mp_ret') = Min(Max(mp_k, 0), Len(mp_candidates))
          /\ \A j \in 1..Len(mp_ret') - 1 : mp_ret'[j].score >= mp_ret'[j + 1].score
          /\ \E f \in [1..Len(mp_ret') -> 1..Len(mp_candidates)] :
                /\ \A j, h \in 1..Len(mp_ret') : f[j] = f[h] => j = h
                /\ \A j \in 1..Len(mp_ret') :
                      CandidateWithScore(mp_ret'[j], mp_candidates[f[j]])
          /\ mp_candidates' = mp_candidates
          /\ (mp_candidates = <<>> => mp_ret' = <<>>)]_vars

\* three candidates, k = 2: the two best came back, the best of them not
\* the first of the list, and a candidate of a negative score was left out
C18_Witness ==
    /\ mp_pc = "returned"
    /\ Len(mp_candidates) = 3
    /\ mp_k = 2
    /\ Len(mp_ret) = 2
    /\ mp_ret[1].score > mp_ret[2].score
    /\ mp_ret[1].id # mp_candidates[1].id
    /\ \E i \in 1..3 : mp_candidates[i].id = 4
    /\ \A j \in 1..2 : mp_ret[j].id # 4

(***************************************************************************)
(* Properties of mmr_select on items with equal or absent vectors          *)
(***************************************************************************)
\* positions a and b are duplicates (equal relevance, the same vector) and
\* position c holds an item whose vector is orthogonal to theirs
DuplicatesWithOrthogonal(a, b, c) ==
    /\ a # b
    /\ mmr_items[a].rel = mmr_items[b].rel
    /\ mmr_items[a].vec # None
    /\ mmr_items[a].vec = mmr_items[b].vec
    /\ mmr_items[c].vec # None
    /\ Dot(mmr_items[c].vec, mmr_items[a].vec) = 0

InRet(p) == \E j \in 1..Len(mmr_ret) : mmr_ret[j] = p

\* C21: with lambda = 0.1 and k = 2, of two items of equal relevance and
\* identical vectors only one is returned when the list also holds an item
\* orthogonal to them.
C21_OneDuplicate ==
    (mmr_pc = "done" /\ mmr_lam = 1 /\ mmr_k = 2) =>
        \A a, b, c \in 1..Len(mmr_items) :
            DuplicatesWithOrthogonal(a, b, c) => ~(InRet(a) /\ InRet(b))

\* a duplicate of relevance 1.0 came first and the orthogonal item of
\* relevance -1.0 second: the other duplicate, of -0.8, lost to -0.1
C21_Witness ==
    /\ mmr_pc = "done"
    /\ mmr_lam = 1
    /\ mmr_k = 2
    /\ Len(mmr_ret) = 2
    /\ \E a, b, c \in 1..Len(mmr_items) :
          /\ DuplicatesWithOrthogonal(a, b, c)
          /\ mmr_items[a].rel = One
          /\ mmr_items[c].rel = 0 - One
          /\ mmr_ret = <<a, c>>

\* C22: an unselected item without a vector has the MMR value lambda *
\* relevance at every step, and the selected items without a vector add
\* nothing to the penalty of the others.
C22_NoVectorNoPenalty ==
    mmr_pc = "loop" =>
        \A j \in 1..Len(remaining) :
            LET item == mmr_items[remaining[j]]
                with_vec == SelectSeq(selected_vecs, LAMBDA v : v # None)
            IN  /\ get_vector(item) = None =>
                      mmr_score(item, mmr_lam, selected_vecs) = mmr_lam * item.rel
                /\ mmr_score(item, mmr_lam, selected_vecs) =
                      IF get_vector(item) = None \/ with_vec = <<>>
                      THEN mmr_lam * item.rel
                      ELSE mmr_lam * item.rel
                           - (10 - mmr_lam) * SeqMax([h \in 1..Len(with_vec) |->
                                 cosine_sim(get_vector(item), with_vec[h])]) * SimUnit

\* an item without a vector was selected first, then one with a vector; an
\* item without a vector still waits, and lambda < 1
C22_Witness ==
    /\ mmr_pc = "loop"
    /\ mmr_lam = 5
    /\ Len(selected_vecs) = 2
    /\ selected_vecs[1] = None
    /\ selected_vecs[2] # None
    /\ Len(remaining) = 1
    /\ mmr_items[remaining[1]].vec = None
    /\ mmr_items[remaining[1]].rel = One

(***************************************************************************)
(* Maximality of greedy_max_weight_matching                                *)
(***************************************************************************)
Accepted(e) == \E j \in 1..Len(g_ret) : g_ret[j] = e

\* C30: every input edge of two different endpoints that was not accepted
\* shares an endpoint with an accepted edge of a score at least as high.
C30_Maximal ==
    g_pc = "done" =>
        \A i \in 1..Len(g_edges) :
            LET e == g_edges[i]
            IN  (e.user_a # e.user_b /\ ~Accepted(e)) =>
                    \E j \in 1..Len(g_ret) :
                        /\ {g_ret[j].user_a, g_ret[j].user_b} \cap {e.user_a, e.user_b} # {}
                        /\ g_ret[j].score >= e.score

\* the better edge came second in the input and was accepted; the first
\* edge, which shares an endpoint, was rejected
C30_Witness ==
    /\ g_pc = "done"
    /\ Len(g_edges) >= 2
    /\ g_edges[1].user_a # g_edges[1].user_b
    /\ g_edges[1].score < g_edges[2].score
    /\ g_edges[1].user_a = g_edges[2].user_a
    /\ g_edges[1].user_b # g_edges[2].user_b
    /\ g_edges[2].user_a # g_edges[2].user_b
    /\ Accepted(g_edges[2])
    /\ ~Accepted(g_edges[1])

(***************************************************************************)
(* Symmetry of the pairwise score                                          *)
(***************************************************************************)
\* the cosine of a field, 0 when one of the two vectors is absent
FieldSim(va, vb) == IF va = None \/ vb = None THEN 0 ELSE cosine_sim(va, vb)

\* C23: the score of b for a equals the score of a for b, with and without
\* a history count of the pair; an absent vector adds 0 to the weighted sum
\* and the call returns.
C23_Symmetric ==
    /\ (e_fn = "build_top_l_edges" /\ Len(e_users) = 2) =>
          /\ e_pc = "returned"
          /\ Len(e_ret) = 2
          /\ e_ret[1].user_a = e_ret[2].user_b
          /\ e_ret[1].user_b = e_ret[2].user_a
          /\ e_ret[1].score = e_ret[2].score
          /\ LET a == e_users[1]
                 b == e_users[2]
                 c == HistoryCount(a.user_id, b.user_id)
             IN  e_ret[1].score * Pow(10, c) =
                     (FieldSim(a.v_exp, b.v_exp) * e_params.w_exp
                      + FieldSim(a.v_interest, b.v_interest) * e_params.w_interest)
                     * 100 * Pow(e_params.history_penalty, c)
    /\ ExperienceReturned =>
          \A a, b \in DOMAIN e_ret : \A j \in 1..Len(e_ret[a]) :
              (e_ret[a][j].user_id = b /\ e_args.top_k >= Len(e_users) - 1) =>
                      \E h \in 1..Len(e_ret[b]) :
                          /\ e_ret[b][h].user_id = a
                          /\ e_ret[b][h].score = e_ret[a][j].score

\* the pair (2, 1) has the history count 2 and the first profile lacks
\* v_exp: both edges carry 0.6 * 0.4 * 0.8^2, the share of the interests
C23_Witness ==
    /\ e_fn = "build_top_l_edges"
    /\ e_pc = "returned"
    /\ Len(e_users) = 2
    /\ e_users[1].user_id = 2
    /\ HistoryCount(1, 2) = 2
    /\ e_users[1].v_exp = None
    /\ e_users[2].v_exp # None
    /\ e_users[1].v_interest = <<3, 4>>
    /\ e_users[2].v_interest = <<1, 0>>
    /\ e_params.w_interest = 40
    /\ Len(e_ret) = 2
    /\ e_ret[1].score = 153600
    /\ e_ret[2].score = 153600

(***************************************************************************)
(* Rejected parameters in the engine                                       *)
(***************************************************************************)
ValidatingCalls == {"host_match", "match_experience", "match_needs"}

\* C28: with params that fail validate_logic, host_match, match_experience
\* and match_needs raise before any call of the embedder and leave every
\* vector of the pool as it was.
C28_RaisesBeforeEmbedding ==
    [][(e_pc = "call" /\ e_fn' \in ValidatingCalls /\ ~validate_logic(e_params)) =>
          /\ e_pc' = "ValueError"
          /\ e_encodes' = <<>>
          /\ e_users' = e_users]_vars

\* host_match was rejected for host_recall_top_n < host_return_top_k on a
\* pool whose first profile still has no vector
C28_Witness ==
    /\ e_fn = "host_match"
    /\ e_pc = "ValueError"
    /\ e_params.host_recall_top_n < e_params.host_return_top_k
    /\ e_encodes = <<>>
    /\ Len(e_users) >= 2
    /\ e_users[1].v_profile = None
    /\ e_users[1].exp_text = "ml"

(***************************************************************************)
(* The service after changes of the database, and its HTTP endpoint        *)
(***************************************************************************)
\* C24: with cache_vectors=True, find_matches_for_user ends with the
\* not-found error whenever the requested id has no profile in the database
\* at the time of the call, whatever calls came before.
C24_NotFoundAfterDelete ==
    (s_fn = "find_matches_for_user" /\ Answered /\ cache_vectors
     /\ s_args.user_id \notin s_db) => s_out = "NotFound"

JobStatuses == {"pending", "processing", "needs_review", "confirmed", "failed"}

StatusMoves ==
    { <<"pending", "processing">>, <<"processing", "needs_review">>,
      <<"needs_review", "confirmed">>, <<"pending", "failed">>,
      <<"processing", "failed">> }

StatusOf(j) == parsing_jobs[j].status

\* C25: the status of a parsing job is one of pending, processing,
\* needs_review, confirmed and failed; a job starts as pending; its status
\* changes only along pending -> processing -> needs_review -> confirmed or
\* from pending or processing to failed, so never once it is confirmed or
\* failed; and /api/parsing/result has parsed data to return only for a job
\* in needs_review or confirmed.
C25_StatusMachine ==
    /\ [](\A j \in DOMAIN parsing_jobs :
            /\ StatusOf(j) \in JobStatuses
            /\ parsing_result(j, parsing_jobs).code = 200
                   => StatusOf(j) \in {"needs_review", "confirmed"})
    /\ [][\A j \in DOMAIN parsing_jobs' :
            IF j \in DOMAIN parsing_jobs
            THEN parsing_jobs'[j].status # StatusOf(j)
                    => <<StatusOf(j), parsing_jobs'[j].status>> \in StatusMoves
            ELSE parsing_jobs'[j].status = "pending"]_vars

\* a job went all the way to confirmed, and its parsed data can be fetched
C25_Witness ==
    \E j \in DOMAIN parsing_jobs :
        /\ StatusOf(j) = "confirmed"
        /\ parsing_result(j, parsing_jobs).code = 200
        /\ workers[j].pc = "done"

Reached(j, statuses) == j \in DOMAIN parsing_jobs /\ StatusOf(j) \in statuses

\* C26: a parsing job is confirmed at most once: of the concurrent calls of
\* confirm_job for one job, at most one writes to the profile.
C26_ConfirmedOnce ==
    \A c1 \in DOMAIN confirms, c2 \in DOMAIN confirms :
        (c1 # c2 /\ confirms[c1].job_id = confirms[c2].job_id)
            => ~ (confirms[c1].wrote /\ confirms[c2].wrote)

\* C27: a job whose thread was started and which is pending or processing
\* reaches needs_review or failed, and a job whose processing raised
\* reaches failed.
C27_JobEnds ==
    \A j \in 1..MaxJobs :
        /\ (j \in DOMAIN workers /\ Reached(j, {"pending", "processing"}))
              ~> Reached(j, {"needs_review", "failed"})
        /\ (j \in DOMAIN workers /\ workers[j].raised) ~> Reached(j, {"failed"})

\* the thread of a job ended after an exception, and the job is failed
C27_Witness ==
    \E j \in DOMAIN workers :
        /\ workers[j].pc = "done"
        /\ workers[j].raised
        /\ StatusOf(j) = "failed"

====
